---- MODULE Spec2Model ----
(***************************************************************************)
(* Model of the Pendo OpenFeature server provider (PendoProvider):         *)
(* flag resolution through a per-visitor TTL cache in front of the         *)
(* segmentflag.json endpoint.  Every resolve call is a process that either *)
(* returns at once (no visitor id, cache hit) or sends one GET request and *)
(* suspends until the response or the transport failure arrives.           *)
(***************************************************************************)
EXTENDS Integers, Sequences, FiniteSets, Bags, TLC

\* ------------------------------------------------------------------ bounds
MaxFetch == 2      \* GET requests sent in one behaviour
MaxTime  == 1      \* largest value of the clock Date.now()
MaxTtl   == 1      \* largest configured cacheTtl
MaxPosts == 2      \* POST requests of track()/after() in flight at once
MaxBytes == 4      \* longest deflate output handed to the base64 step
MaxInFlight == 2   \* GET requests of two providers in flight at once
MaxPolls == 1      \* largest readyTimeout, in poll intervals
MaxJoined == 1     \* unsettled initialize() calls that joined one wait

\* ------------------------------------------------------- JavaScript values
\* undefined (a missing property)
Undefined == "<undefined>"


\* variant of Falsy: only a missing property counts (visitorId === undefined)
FalsyOnlyUndefined(x) == x = Undefined

\* !x for a string-or-undefined x
Falsy(x) == x = Undefined \/ x = ""

\* typed JS values, kept apart by their type tag
BoolValue(b) == [type |-> "boolean", repr |-> IF b THEN "true" ELSE "false"]
StringValue(s) == [type |-> "string", repr |-> s]
NumberValue(n) == [type |-> "number", repr |-> ToString(n)]
ObjectValue(json) == [type |-> "object", repr |-> json]

\* { enabled: b }
EnabledObject(b) == ObjectValue(IF b THEN "{enabled:true}" ELSE "{enabled:false}")

\* ------------------------------------------------------------ input domains
FlagKeys == {"f1", "f2"}
FlagSets == {{}, {"f1"}}

Kinds == {"Boolean", "String", "Number", "Object"}

\* the defaultValue arguments a caller passes, per resolve operation
DefaultValues(kind) ==
    CASE kind = "Boolean" -> {BoolValue(TRUE), BoolValue(FALSE)}
      [] kind = "String"  -> {StringValue("fallback"), StringValue("off")}
      [] kind = "Number"  -> {NumberValue(42), NumberValue(0)}
      [] kind = "Object"  -> {ObjectValue("{theme:dark}"), EnabledObject(FALSE)}

\* the resolve operation a caller invokes, with its flagKey and defaultValue
Operations ==
    UNION { [kind : {k}, flagKey : FlagKeys, defaultValue : DefaultValues(k)] :
            k \in Kinds }

\* evaluation contexts: targetingKey is the visitor id
Contexts ==
    { [targetingKey |-> Undefined, accountId |-> "acct"],
      [targetingKey |-> "",        accountId |-> Undefined],
      [targetingKey |-> "u1",      accountId |-> Undefined],
      [targetingKey |-> "u1",      accountId |-> "acct"] }

\* provider options after the constructor merged the defaults
OptionSets ==
    [apiKey : {"key"}, defaultUrl : {"https://example.com"},
     baseUrl : {"https://data.pendo.io"}, cacheTtl : 0..MaxTtl]

\* provider options whose cacheTtl may outlast one advance of the clock
ClockOptionSets ==
    [apiKey : {"key"}, defaultUrl : {"https://example.com"},
     baseUrl : {"https://data.pendo.io"}, cacheTtl : 0..(MaxTtl + 1)]

\* provider options as any caller may construct them: the constructor
\* accepts an empty apiKey and an empty defaultUrl
AnyOptionSets ==
    [apiKey : {"", "key"}, defaultUrl : {"", "https://example.com"},
     baseUrl : {"https://data.pendo.io"}, cacheTtl : {MaxTtl}]

\* ------------------------------------------------------- remote responses
Statuses == {200, 202, 429, 451, 500}

StatusTextOf(s) ==
    CASE s = 200 -> "OK"
      [] s = 202 -> "Accepted"
      [] s = 429 -> "Too Many Requests"
      [] s = 451 -> "Unavailable For Legal Reasons"
      [] s = 500 -> "Internal Server Error"

\* what response.json() can give: a rejected parse, JSON null, an object
\* without segmentFlags, an object with a segmentFlags array (the declared
\* type { segmentFlags?: string[] }; the array is kept as the set of its keys)
Bodies ==
    { [json |-> "unparsable", segmentFlags |-> {}],
      [json |-> "null", segmentFlags |-> {}],
      [json |-> "noField", segmentFlags |-> {}] }
    \cup { [json |-> "flags", segmentFlags |-> fs] : fs \in FlagSets }

\* fetch() settles with a response (any status, either ok flag, any body),
\* or rejects (transport failure).  fetch rejects with a TypeError or a
\* DOMException, so the rejection is always an Error carrying a message.
Responses ==
    { [settled |-> "response", status |-> 200, ok |-> o,
       statusText |-> StatusTextOf(200), body |-> b, message |-> Undefined] :
         o \in BOOLEAN, b \in Bodies }
    \cup
    { [settled |-> "response", status |-> s, ok |-> o,
       statusText |-> StatusTextOf(s), body |-> b, message |-> Undefined] :
         s \in Statuses \ {200}, o \in BOOLEAN,
         b \in { [json |-> "unparsable", segmentFlags |-> {}],
                 [json |-> "flags", segmentFlags |-> {"f1"}] } }
    \cup
    { [settled |-> "rejected", status |-> 0, ok |-> FALSE,
       statusText |-> Undefined, body |-> [json |-> "unparsable", segmentFlags |-> {}],
       message |-> m] : m \in {"Network error", "fetch failed"} }

\* the kind of failure a settled request amounts to for the caller: a
\* transport failure, a rate limit, a non-ok status, a body that cannot be
\* parsed, or none (202 and 451 are never failures)
FailureKind(resp) ==
    CASE resp.settled = "rejected" -> "transport"
      [] resp.settled = "response" /\ resp.status = 429 -> "rateLimit"
      [] resp.settled = "response" /\ resp.status \in {202, 451} -> "none"
      [] resp.settled = "response" /\ resp.status \notin {202, 429, 451}
           /\ ~resp.ok -> "status"
      [] resp.settled = "response" /\ resp.status \notin {202, 429, 451}
           /\ resp.ok /\ resp.body.json = "unparsable" -> "body"
      [] OTHER -> "none"

\* the settled request as the caller side of a test sees it
Seen(resp) == [settled |-> resp.settled, status |-> resp.status, ok |-> resp.ok,
               failure |-> FailureKind(resp), message |-> resp.message]

NoResponse == [settled |-> "none", status |-> 0, ok |-> FALSE,
               failure |-> "none", message |-> Undefined]

\* -------------------------------------------------------------- the state
VARIABLES
    options,     \* this.options
    status,      \* this.status
    cache,       \* this.cache : cacheKey -> CacheEntry
    now,         \* Date.now()
    pending,     \* bag of getSegmentFlags(context) frames suspended on their GET
    nFetch,      \* GET requests sent so far
    returned,    \* what the latest step returned to its caller, if it returned
    lastStore,   \* history: per context, expiresAt of the entry stored by the
                 \* latest completed fetch since the last clearCache/onClose,
                 \* whether its response was a 202 or a 451, and whether
                 \* the clock advanced while the latest request for it
                 \* was in flight
    cleared      \* history: clearCache() ran and no resolution started since

\* event tracking: PendoProvider.track() and the two telemetry hooks
VARIABLES
    hook,        \* this.options of the server PendoTelemetryHook
    webHook,     \* this.options of the web PendoTelemetryHook
    window,      \* what the web hook finds in the global scope
    posts,       \* bag of POST requests in flight, each known by the call
                 \* site whose catch handler is attached to it
    tracked      \* what the latest tracking step did: the fetch() calls, the
                 \* console lines and the pendo.track() calls it made

\* request encoding
VARIABLES
    jzb          \* the latest encodeJzb call and, once the token has been
                 \* decoded again, what the decoding gave

\* two providers in one process
VARIABLES
    heap,        \* the Map objects: reference -> Map
    insts,       \* per provider instance: the reference in this.cache, the
                 \* cacheTtl option, this.status, its suspended calls, and
                 \* (history) the keys it stored since it last cleared
    acted        \* what the latest step of either provider did

\* the web provider and the page it runs in
VARIABLES
    page,         \* window, window.pendo and what the agent has put there
    webOptions,   \* this.options of the web provider
    webStatus,    \* this.status of the web provider
    readyPromise, \* this.readyPromise: 0 for null, else the wait it refers to
    waits,        \* the promises waitForPendo() has created, in order
    webDid        \* what the latest step of the web provider or page did

provVars == <<options, status, cache, now, pending, nFetch, returned,
              lastStore, cleared>>

trackVars == <<hook, webHook, window, posts, tracked>>

jzbVars == <<jzb>>

instVars == <<heap, insts, acted>>

webVars == <<page, webOptions, webStatus, readyPromise, waits, webDid>>

\* what the actions of one component leave alone
nonProvVars == <<trackVars, jzbVars, instVars, webVars>>
nonTrackVars == <<provVars, jzbVars, instVars, webVars>>
nonJzbVars == <<provVars, trackVars, instVars, webVars>>
nonInstVars == <<provVars, trackVars, jzbVars, webVars>>
nonWebVars == <<provVars, trackVars, jzbVars, instVars>>

vars == <<options, status, cache, now, pending, nFetch, returned,
          lastStore, cleared, hook, webHook, window, posts, tracked, jzb,
          heap, insts, acted,
          page, webOptions, webStatus, readyPromise, waits, webDid>>

EmptyCache == [k \in {} |-> [flags |-> {}, expiresAt |-> 0]]

NoReturn == [source |-> "none"]

NoStore ==
    [c \in Contexts |-> [expiresAt |-> 0, special |-> FALSE, waited |-> FALSE]]

\* ------------------------------------------------------------ pure helpers
\* `${visitorId}:${accountId || ""}`
CacheKey(visitorId, accountId) ==
    visitorId \o ":" \o (IF Falsy(accountId) THEN "" ELSE accountId)


\* variant of CacheHit: the entry stops being served one tick early
CacheHitEarly(c, key, t) == key \in DOMAIN c /\ c[key].expiresAt > t + 1

\* variant of CacheHit: the entry is still served at now = expiresAt
CacheHitInclusive(c, key, t) == key \in DOMAIN c /\ c[key].expiresAt >= t

\* cached && cached.expiresAt > Date.now()
CacheHit(c, key, t) == key \in DOMAIN c /\ c[key].expiresAt > t

\* variant of CacheSet: an entry that exists is kept, the first write wins
CacheSetKeepsExisting(c, key, flags, t, ttl) ==
    [k \in DOMAIN c \cup {key} |->
        IF k \in DOMAIN c THEN c[k]
        ELSE [flags |-> flags, expiresAt |-> t + ttl]]
\* variant of CacheSet: the lifetime is counted from time 0, not from the
\* time of the write
CacheSetFromStart(c, key, flags, t, ttl) ==
    [k \in DOMAIN c \cup {key} |->
        IF k = key THEN [flags |-> flags, expiresAt |-> ttl] ELSE c[k]]

\* this.cache.set(cacheKey, {flags, expiresAt: Date.now() + cacheTtl})
CacheSet(c, key, flags, t, ttl) ==
    [k \in DOMAIN c \cup {key} |->
        IF k = key THEN [flags |-> flags, expiresAt |-> t + ttl] ELSE c[k]]

\* a thrown Error
ErrorOf(msg) == [isError |-> TRUE, message |-> msg]

\* fetchSegmentFlags returned flags / threw new Error(msg)
FlagsReturned(flags) == [threw |-> FALSE, flags |-> flags, error |-> ErrorOf("")]
ErrorThrown(msg) == [threw |-> TRUE, flags |-> {}, error |-> ErrorOf(msg)]

\* data.segmentFlags || [] after response.json(), or the error json() or
\* the property read throws
ParsedFlags(body) ==
    CASE body.json = "unparsable" -> ErrorThrown("Unexpected token in JSON")
      [] body.json = "null" -> ErrorThrown("Cannot read properties of null")
      [] body.json = "noField" -> FlagsReturned({})
      [] body.json = "flags" -> FlagsReturned(body.segmentFlags)

\* new Error(`Pendo API error: ${response.status} ${response.statusText}`)
ApiError(resp) ==
    ErrorThrown("Pendo API error: " \o ToString(resp.status) \o " " \o resp.statusText)

\* variant of fetchSegmentFlags: the ok flag is tested before the status codes
fetchSegmentFlagsOkFirst(resp) ==
    IF resp.settled = "rejected" THEN ErrorThrown(resp.message)
    ELSE IF ~resp.ok THEN ApiError(resp)
    ELSE IF resp.status = 202 THEN FlagsReturned({})
    ELSE IF resp.status = 429 THEN ErrorThrown("Pendo API rate limit exceeded")
    ELSE IF resp.status = 451 THEN FlagsReturned({})
    ELSE ParsedFlags(resp.body)

\* variant of fetchSegmentFlags: 202 and 451 are not special, the body of
\* every ok response is parsed
fetchSegmentFlagsNoSpecial(resp) ==
    IF resp.settled = "rejected" THEN ErrorThrown(resp.message)
    ELSE IF resp.status = 429 THEN ErrorThrown("Pendo API rate limit exceeded")
    ELSE IF ~resp.ok THEN ApiError(resp)
    ELSE ParsedFlags(resp.body)

\* fetchSegmentFlags after fetch() settled: the flags it returns or the
\* error it throws
fetchSegmentFlags(resp) ==
    IF resp.settled = "rejected" THEN ErrorThrown(resp.message)
    ELSE IF resp.status = 202 THEN FlagsReturned({})
    ELSE IF resp.status = 429 THEN ErrorThrown("Pendo API rate limit exceeded")
    ELSE IF resp.status = 451 THEN FlagsReturned({})
    ELSE IF ~resp.ok THEN ApiError(resp)
    ELSE ParsedFlags(resp.body)

\* the record a resolve operation returns; absent properties are Undefined
Result(value, reason, variant, errorCode, errorMessage) ==
    [value |-> value, reason |-> reason, variant |-> variant,
     errorCode |-> errorCode, errorMessage |-> errorMessage]

\* variant of BooleanResult: the variants "on" and "off" are swapped
BooleanResultSwapped(isNull, flags, flagKey, defaultValue) ==
    IF isNull
      THEN Result(defaultValue, "DEFAULT", "default", Undefined, Undefined)
      ELSE LET enabled == flagKey \in flags
           IN Result(BoolValue(enabled),
                     IF enabled THEN "TARGETING_MATCH" ELSE "DEFAULT",
                     IF enabled THEN "off" ELSE "on", Undefined, Undefined)

\* variant of BooleanResult: a flag that is not targeted falls back to the
\* caller's defaultValue
BooleanResultFallback(isNull, flags, flagKey, defaultValue) ==
    IF isNull
      THEN Result(defaultValue, "DEFAULT", "default", Undefined, Undefined)
      ELSE LET enabled == flagKey \in flags
           IN Result(IF enabled THEN BoolValue(TRUE) ELSE defaultValue,
                     IF enabled THEN "TARGETING_MATCH" ELSE "DEFAULT",
                     IF enabled THEN "on" ELSE "off", Undefined, Undefined)

\* resolveBooleanEvaluation, the try branch, given what getSegmentFlags
\* returned (null or an array)
BooleanResult(isNull, flags, flagKey, defaultValue) ==
    IF isNull
      THEN Result(defaultValue, "DEFAULT", "default", Undefined, Undefined)
      ELSE LET enabled == flagKey \in flags
           IN Result(BoolValue(enabled),
                     IF enabled THEN "TARGETING_MATCH" ELSE "DEFAULT",
                     IF enabled THEN "on" ELSE "off", Undefined, Undefined)

\* variant of ErrorResult: the error result carries false, not the default
ErrorResultFalse(error, defaultValue) ==
    Result(BoolValue(FALSE), "ERROR", Undefined, "GENERAL",
           IF error.isError THEN error.message ELSE "Unknown error")

\* variant of ErrorResult: every failure is reported as "Unknown error"
ErrorResultUnknown(error, defaultValue) ==
    Result(defaultValue, "ERROR", Undefined, "GENERAL", "Unknown error")

\* resolveBooleanEvaluation, the catch branch
ErrorResult(error, defaultValue) ==
    Result(defaultValue, "ERROR", Undefined, "GENERAL",
           IF error.isError THEN error.message ELSE "Unknown error")

\* variant of OnOffValue: the two representations are exchanged
OnOffValueInverted(kind, b) ==
    CASE kind = "String" -> StringValue(IF b THEN "off" ELSE "on")
      [] kind = "Number" -> NumberValue(IF b THEN 0 ELSE 1)
      [] kind = "Object" -> EnabledObject(~b)

\* the "on"/"off" representation of each typed operation
OnOffValue(kind, b) ==
    CASE kind = "String" -> StringValue(IF b THEN "on" ELSE "off")
      [] kind = "Number" -> NumberValue(IF b THEN 1 ELSE 0)
      [] kind = "Object" -> EnabledObject(b)

\* variant of TypedResult: the error result keeps the code, not the message
TypedResultDropsMessage(kind, boolResult, defaultValue) ==
    IF boolResult.reason = "ERROR"
      THEN Result(defaultValue, "ERROR", Undefined, boolResult.errorCode,
                  Undefined)
    ELSE IF boolResult.reason = "DEFAULT" /\ boolResult.value = BoolValue(FALSE)
      THEN Result(defaultValue, "DEFAULT", "default", Undefined, Undefined)
    ELSE Result(OnOffValue(kind, boolResult.value = BoolValue(TRUE)),
                boolResult.reason, boolResult.variant, Undefined, Undefined)

\* variant of TypedResult: only the "default" variant (no visitor id) falls
\* back to defaultValue, a flag outside the FlagSet gives the "off" value
TypedResultOffWhenDisabled(kind, boolResult, defaultValue) ==
    IF boolResult.reason = "ERROR"
      THEN Result(defaultValue, "ERROR", Undefined, boolResult.errorCode,
                  boolResult.errorMessage)
    ELSE IF boolResult.reason = "DEFAULT" /\ boolResult.variant = "default"
      THEN Result(defaultValue, "DEFAULT", "default", Undefined, Undefined)
    ELSE Result(OnOffValue(kind, boolResult.value = BoolValue(TRUE)),
                boolResult.reason, boolResult.variant, Undefined, Undefined)

\* resolveString/Number/ObjectEvaluation after the boolean result arrived
TypedResult(kind, boolResult, defaultValue) ==
    IF boolResult.reason = "ERROR"
      THEN Result(defaultValue, "ERROR", Undefined, boolResult.errorCode,
                  boolResult.errorMessage)
    ELSE IF boolResult.reason = "DEFAULT" /\ boolResult.value = BoolValue(FALSE)
      THEN Result(defaultValue, "DEFAULT", "default", Undefined, Undefined)
    ELSE Result(OnOffValue(kind, boolResult.value = BoolValue(TRUE)),
                boolResult.reason, boolResult.variant, Undefined, Undefined)

\* the defaultValue the operation hands to resolveBooleanEvaluation
InnerDefault(op) ==
    IF op.kind = "Boolean" THEN op.defaultValue ELSE BoolValue(FALSE)

\* the result of an operation whose getSegmentFlags returned (null or flags)
ResultOfFlags(op, isNull, flags) ==
    LET b == BooleanResult(isNull, flags, op.flagKey, InnerDefault(op))
    IN IF op.kind = "Boolean" THEN b
       ELSE TypedResult(op.kind, b, op.defaultValue)

\* the result of an operation whose getSegmentFlags threw
ResultOfError(op, error) ==
    LET b == ErrorResult(error, InnerDefault(op))
    IN IF op.kind = "Boolean" THEN b
       ELSE TypedResult(op.kind, b, op.defaultValue)

\* per operation, the result on a getSegmentFlags that returned
ResultsOfFlags(isNull, flags) ==
    [op \in Operations |-> ResultOfFlags(op, isNull, flags)]

\* per operation, the result on a getSegmentFlags that threw
ResultsOfError(error) ==
    [op \in Operations |-> ResultOfError(op, error)]

\* variant of CacheAfterFetch: a failed fetch is cached as "no flags"
CacheAfterFetchNegative(c, key, outcome, t, ttl) ==
    CacheSet(c, key, IF outcome.threw THEN {} ELSE outcome.flags, t, ttl)

\* this.cache once getSegmentFlags has finished its fetch: the entry is
\* written only when fetchSegmentFlags returned
CacheAfterFetch(c, key, outcome, t, ttl) ==
    IF outcome.threw THEN c ELSE CacheSet(c, key, outcome.flags, t, ttl)

\* ---------------------------------------------------------- event tracking
\* provider options of a provider used for tracking: trackEventSecret is
\* optional and may be the empty string
TrackOptionSets ==
    [apiKey : {"key"}, defaultUrl : {"https://example.com"},
     baseUrl : {"https://data.pendo.io"}, cacheTtl : {0},
     trackEventSecret : {Undefined, "", "secret"}]

\* a flagFilter option: absent, or a predicate known by the keys it accepts
NoFilter == [configured |-> FALSE, accepts |-> {}]
FlagFilters == {NoFilter, [configured |-> TRUE, accepts |-> {"f1"}]}

\* server hook options after the constructor merged the defaults
HookOptionSets ==
    [eventName : {"flag_evaluated"}, baseUrl : {"https://data.pendo.io"},
     trackEventSecret : {"secret"}, flagFilter : FlagFilters]

\* web hook options after the constructor merged the defaults
WebHookOptionSets ==
    [eventName : {"flag_evaluated"}, flagFilter : FlagFilters]

\* the global scope of the web hook: no window, a window without pendo,
\* pendo without track, pendo with track
Windows == {"undefined", "noPendo", "noTrack", "track"}

\* FlagValue: null, booleans, numbers, strings, objects (their members in
\* insertion order) and arrays
JsNull == [t |-> "null"]
JsBool(b) == [t |-> "boolean", b |-> b]
JsNumber(n) == [t |-> "number", n |-> n]
JsString(str) == [t |-> "string", s |-> str]
JsObject(members) == [t |-> "object", fields |-> members]
JsArray(elements) == [t |-> "array", items |-> elements]
Member(k, v) == [key |-> k, value |-> v]

FlagValues ==
    { JsNull, JsBool(TRUE), JsNumber(42), JsString("on"),
      JsObject(<<Member("enabled", JsBool(TRUE))>>),
      JsObject(<<Member("nested", JsObject(<<Member("value", JsNumber(123))>>))>>),
      JsArray(<<JsNumber(1), JsString("a")>>) }

\* EvaluationDetails handed to after(): value, and the optional variant and
\* reason
EvaluationDetails ==
    { [value |-> v, variant |-> "on", reason |-> "TARGETING_MATCH"] :
        v \in FlagValues }
    \cup { [value |-> JsBool(TRUE), variant |-> Undefined, reason |-> Undefined],
           [value |-> JsBool(TRUE), variant |-> "", reason |-> "DEFAULT"] }

\* trackingEventDetails handed to track()
TrackingEventDetails == { JsObject(<<Member("value", JsNumber(42))>>) }

RECURSIVE JsonText(_), JsonMembers(_), JsonItems(_)
\* JSON.stringify(v); the strings of the domain need no escaping
JsonText(v) ==
    CASE v.t = "null" -> "null"
      [] v.t = "boolean" -> IF v.b THEN "true" ELSE "false"
      [] v.t = "number" -> ToString(v.n)
      [] v.t = "string" -> "\"" \o v.s \o "\""
      [] v.t = "object" -> "{" \o JsonMembers(v.fields) \o "}"
      [] v.t = "array" -> "[" \o JsonItems(v.items) \o "]"

JsonMembers(members) ==
    IF members = <<>> THEN ""
    ELSE "\"" \o Head(members).key \o "\":" \o JsonText(Head(members).value)
         \o (IF Tail(members) = <<>> THEN "" ELSE "," \o JsonMembers(Tail(members)))

JsonItems(elements) ==
    IF elements = <<>> THEN ""
    ELSE JsonText(Head(elements))
         \o (IF Tail(elements) = <<>> THEN "" ELSE "," \o JsonItems(Tail(elements)))

\* String(v) for a value that is not an object
StringOf(v) ==
    CASE v.t = "null" -> "null"
      [] v.t = "boolean" -> IF v.b THEN "true" ELSE "false"
      [] v.t = "number" -> ToString(v.n)
      [] v.t = "string" -> v.s

\* variant of stringifyValue: every value goes through JSON.stringify
stringifyValueJson(value) == JsonText(value)

\* PendoTelemetryHook.stringifyValue (typeof [] is "object" too)
stringifyValue(value) ==
    IF value.t = "null" THEN "null"
    ELSE IF value.t \in {"object", "array"} THEN JsonText(value)
    ELSE StringOf(value)

\* the properties both hooks build from the evaluation outcome
HookProperties(flagKey, details, providerName) ==
    [flag_key |-> flagKey,
     flag_variant |-> IF Falsy(details.variant) THEN "unknown" ELSE details.variant,
     flag_reason |-> IF Falsy(details.reason) THEN "UNKNOWN" ELSE details.reason,
     flag_value |-> stringifyValue(details.value),
     provider_name |-> providerName]

\* a fetch() call of the tracking code: the URL, the init object and, as
\* body, the payload that is serialised into it
PostRequest(baseUrl, secret, eventName, context, t, properties) ==
    [url |-> baseUrl \o "/data/track", method |-> "POST",
     contentType |-> "application/json", secret |-> secret,
     body |-> [type |-> "track", event |-> eventName,
               visitorId |-> context.targetingKey,
               accountId |-> context.accountId, timestamp |-> t,
               properties |-> properties]]

Warn(text) == [level |-> "warn", text |-> text]
LogError(text) == [level |-> "error", text |-> text]

\* what a call of the tracking code did before it returned
Did(fetched, logged, pendo) ==
    [fetched |-> fetched, logged |-> logged, pendo |-> pendo]

\* variant of TrackDid: the targetingKey is validated before the secret
TrackDidVisitorFirst(opts, eventName, context, t, details) ==
    IF Falsy(context.targetingKey)
      THEN Did(<<>>, <<Warn("[PendoProvider] targetingKey (visitorId) is required to track events")>>, <<>>)
    ELSE IF Falsy(opts.trackEventSecret)
      THEN Did(<<>>, <<Warn("[PendoProvider] trackEventSecret is required to track events")>>, <<>>)
    ELSE Did(<<PostRequest(opts.baseUrl, opts.trackEventSecret, eventName,
                           context, t, details)>>, <<>>, <<>>)

\* PendoProvider.track up to its return
TrackDid(opts, eventName, context, t, details) ==
    IF Falsy(opts.trackEventSecret)
      THEN Did(<<>>, <<Warn("[PendoProvider] trackEventSecret is required to track events")>>, <<>>)
    ELSE IF Falsy(context.targetingKey)
      THEN Did(<<>>, <<Warn("[PendoProvider] targetingKey (visitorId) is required to track events")>>, <<>>)
    ELSE Did(<<PostRequest(opts.baseUrl, opts.trackEventSecret, eventName,
                           context, t, details)>>, <<>>, <<>>)

\* variant of Skipped: the negation of the filter's answer is lost
SkippedInverted(flagFilter, flagKey) ==
    flagFilter.configured /\ flagKey \in flagFilter.accepts

\* this.options.flagFilter && !this.options.flagFilter(flagKey)
Skipped(flagFilter, flagKey) ==
    flagFilter.configured /\ flagKey \notin flagFilter.accepts

\* the server hook's after() up to its return
AfterDid(opts, flagKey, context, details, providerName, t) ==
    IF Skipped(opts.flagFilter, flagKey) THEN Did(<<>>, <<>>, <<>>)
    ELSE IF Falsy(context.targetingKey) THEN Did(<<>>, <<>>, <<>>)
    ELSE Did(<<PostRequest(opts.baseUrl, opts.trackEventSecret, opts.eventName,
                           context, t,
                           HookProperties(flagKey, details, providerName))>>,
             <<>>, <<>>)

\* the web hook's after()
WebAfterDid(opts, win, flagKey, details, providerName) ==
    IF Skipped(opts.flagFilter, flagKey) THEN Did(<<>>, <<>>, <<>>)
    ELSE IF win /= "track" THEN Did(<<>>, <<>>, <<>>)
    ELSE Did(<<>>, <<>>,
             <<[event |-> opts.eventName,
                properties |-> HookProperties(flagKey, details, providerName)]>>)

\* variant of PostRejected: no catch handler is attached to the request
PostRejectedUncaught(site, message) ==
    [logged |-> <<>>, unhandled |-> TRUE]

\* the catch handler the call site attached to its fetch() promise
PostRejected(site, message) ==
    [logged |-> <<LogError((IF site = "track"
                              THEN "[PendoProvider] Failed to track event: "
                              ELSE "[PendoTelemetryHook] Failed to track flag evaluation: ")
                           \o message)>>,
     unhandled |-> FALSE]

\* how a POST request in flight can settle: any response, or a rejection
PostOutcomes ==
    { [settled |-> "response", ok |-> TRUE, message |-> Undefined],
      [settled |-> "response", ok |-> FALSE, message |-> Undefined],
      [settled |-> "rejected", ok |-> FALSE, message |-> "Network error"] }

NoTracked == [op |-> "none"]

\* -------------------------------------------------------- request encoding
\* the payloads of the tests: the empty object, plain ids, non-ASCII text
\* (<U+nnnn> stands for the character with that code point)
Payloads ==
    { JsObject(<<>>),
      JsObject(<<Member("visitorId", JsString("user-123"))>>),
      JsObject(<<Member("visitorId", JsString("user-<U+65E5><U+672C><U+8A9E>")),
                 Member("accountId", JsString("account-<U+00E9>moji"))>>) }

\* bytes of a deflate output; 251 and 255 give the base64 digits 62 and 63
Bytes == {0, 120, 156, 251, 255}

RECURSIVE ByteSeqsOfLen(_)
ByteSeqsOfLen(n) ==
    IF n = 0 THEN {<<>>}
    ELSE { Append(bs, b) : bs \in ByteSeqsOfLen(n - 1), b \in Bytes }

\* pako.deflate(JSON.stringify(payload)): a zlib stream, never empty; the
\* library chooses its bytes
DeflateOutputs == UNION { ByteSeqsOfLen(n) : n \in 1..MaxBytes }

Base64Alphabet ==
    <<"A", "B", "C", "D", "E", "F", "G", "H", "I", "J", "K", "L", "M",
      "N", "O", "P", "Q", "R", "S", "T", "U", "V", "W", "X", "Y", "Z",
      "a", "b", "c", "d", "e", "f", "g", "h", "i", "j", "k", "l", "m",
      "n", "o", "p", "q", "r", "s", "t", "u", "v", "w", "x", "y", "z",
      "0", "1", "2", "3", "4", "5", "6", "7", "8", "9", "+", "/">>

Base64Digit(n) == Base64Alphabet[(n % 64) + 1]

RECURSIVE Base64(_)
\* Buffer.from(bytes).toString("base64"): the text as a sequence of chars
Base64(bytes) ==
    IF bytes = <<>> THEN <<>>
    ELSE IF Len(bytes) = 1 THEN
      LET n == bytes[1] * 65536
      IN <<Base64Digit(n \div 262144), Base64Digit(n \div 4096), "=", "=">>
    ELSE IF Len(bytes) = 2 THEN
      LET n == bytes[1] * 65536 + bytes[2] * 256
      IN <<Base64Digit(n \div 262144), Base64Digit(n \div 4096),
           Base64Digit(n \div 64), "=">>
    ELSE
      LET n == bytes[1] * 65536 + bytes[2] * 256 + bytes[3]
      IN <<Base64Digit(n \div 262144), Base64Digit(n \div 4096),
           Base64Digit(n \div 64), Base64Digit(n)>>
         \o Base64(SubSeq(bytes, 4, Len(bytes)))

\* text.replace(/from/g, to)
ReplaceAll(text, from, to) ==
    [i \in 1..Len(text) |-> IF text[i] = from THEN to ELSE text[i]]

\* text.replace(from, to) with a string pattern: the first match only
ReplaceFirst(text, from, to) ==
    [i \in 1..Len(text) |->
        IF text[i] = from /\ \A j \in 1..(i - 1) : text[j] /= from
          THEN to ELSE text[i]]

RECURSIVE StripPadding(_)
\* text.replace(/=+$/, "")
StripPadding(text) ==
    IF text /= <<>> /\ text[Len(text)] = "="
      THEN StripPadding(SubSeq(text, 1, Len(text) - 1))
      ELSE text

\* variant of UrlSafe: the patterns are strings, only the first "+" and the
\* first "/" are replaced
UrlSafeFirstOnly(base64) ==
    StripPadding(ReplaceFirst(ReplaceFirst(base64, "+", "-"), "/", "_"))

\* variant of UrlSafe: "+" and "/" are both written as "-"
UrlSafeOneSubstitute(base64) ==
    StripPadding(ReplaceAll(ReplaceAll(base64, "+", "-"), "/", "-"))

\* step 4 of encodeJzb
UrlSafe(base64) ==
    StripPadding(ReplaceAll(ReplaceAll(base64, "+", "-"), "/", "_"))

\* encodeJzb(payload), given the bytes pako.deflate produced for its JSON text
encodeJzb(payload, compressed) == UrlSafe(Base64(compressed))

\* the number a base64 char stands for
Base64Value(c) == (CHOOSE i \in 1..64 : Base64Alphabet[i] = c) - 1

RECURSIVE Base64Decode(_)
\* Buffer.from(text, "base64") for a padded text
Base64Decode(text) ==
    IF Len(text) < 4 THEN <<>>
    ELSE
      LET digits == Cardinality({i \in 1..4 : text[i] /= "="})
          v(i) == IF text[i] = "=" THEN 0 ELSE Base64Value(text[i])
          n == v(1) * 262144 + v(2) * 4096 + v(3) * 64 + v(4)
          three == <<n \div 65536, (n \div 256) % 256, n % 256>>
      IN SubSeq(three, 1, IF digits = 4 THEN 3 ELSE IF digits = 3 THEN 2
                           ELSE IF digits = 2 THEN 1 ELSE 0)
         \o Base64Decode(SubSeq(text, 5, Len(text)))

\* the first steps of the decodeJzb test helper: restore the alphabet, add
\* the padding, decode
DecodedBytes(encoded) ==
    LET base64 == ReplaceAll(ReplaceAll(encoded, "-", "+"), "_", "/")
        padding == Len(base64) % 4
        padded == IF padding > 0
                    THEN base64 \o [i \in 1..(4 - padding) |-> "="]
                    ELSE base64
    IN Base64Decode(padded)

Corrupt == [t |-> "corrupt"]

\* JSON.parse(pako.inflate(bytes)): the payload whose deflate output the
\* bytes are, nothing usable for other bytes
Inflated(bytes, payload, compressed) ==
    IF bytes = compressed THEN payload ELSE Corrupt

\* decodeJzb(encoded)
decodeJzb(encoded, payload, compressed) ==
    Inflated(DecodedBytes(encoded), payload, compressed)

NoJzb == [stage |-> "none"]

\* ------------------------------------------------ two provider instances
Instances == {1, 2}

\* the contexts the two providers resolve for: no visitor, two visitors
InstContexts ==
    { [targetingKey |-> Undefined, accountId |-> "acct"],
      [targetingKey |-> "u1",      accountId |-> Undefined],
      [targetingKey |-> "u2",      accountId |-> Undefined] }

\* the answers their requests get: a FlagSet, a server error, a transport
\* failure
InstResponses ==
    { r \in Responses :
        \/ r.settled = "rejected" /\ r.message = "Network error"
        \/ r.settled = "response" /\ r.status = 200 /\ r.ok
              /\ r.body.json = "flags"
        \/ r.settled = "response" /\ r.status = 500 /\ ~r.ok
              /\ r.body.json = "unparsable" }

\* variant of NewMap: one Map, created once, serves every instance
NewMapShared(i) == 1

\* the reference `new Map()` gives in the field initializer of instance i:
\* a Map of its own
NewMap(i) == i

\* instance i as constructed with cacheTtl ttl
NewProvider(i, ttl) ==
    [cacheRef |-> NewMap(i), cacheTtl |-> ttl, status |-> "NOT_READY",
     pending |-> EmptyBag, wrote |-> {}]

\* the Map that this.cache of instance i refers to
CacheOf(h, ps, i) == h[ps[i].cacheRef]

\* the calls of all instances that are suspended on their request
InFlight(ps) == BagCardinality(ps[1].pending) + BagCardinality(ps[2].pending)

NoAct == [inst |-> 0, source |-> "none"]

\* the two-provider side when there is only one provider
InstIdle ==
    /\ heap = [ref \in {} |-> EmptyCache]
    /\ insts = [i \in {} |-> NewProvider(i, 0)]
    /\ acted = NoAct

\* ------------------------------------------------------- the web provider
\* the delay of setTimeout(check, 100), in ms
PollInterval == 100

\* the readyTimeout options, in ms
ReadyTimeouts == {PollInterval * k : k \in 0..MaxPolls}

\* Date.now() - startTime is followed up to a value above every readyTimeout
ElapsedCap == PollInterval * (MaxPolls + 1)

\* no window (and no document): server-side rendering
NoWindow ==
    [window |-> FALSE, pendo |-> FALSE, isReady |-> "absent",
     hasFlags |-> FALSE, segmentFlags |-> {}]

\* a browser page: window.pendo undefined, or an agent object whose isReady
\* is absent or returns false or true, and whose segmentFlags is undefined
\* or an array
BrowserPages ==
    { p \in [window : {TRUE}, pendo : BOOLEAN,
              isReady : {"absent", "false", "true"},
              hasFlags : BOOLEAN, segmentFlags : SUBSET FlagKeys] :
        /\ (~p.hasFlags => p.segmentFlags = {})
        /\ (~p.pendo => p.isReady = "absent" /\ ~p.hasFlags) }

\* the pages a readiness wait is followed on: no agent, an agent object
\* without isReady and segmentFlags, one that says ready, one with an array
WaitPages ==
    { p \in BrowserPages :
        /\ p.isReady /= "false"
        /\ (p.hasFlags => p.isReady = "absent" /\ p.segmentFlags = {"f1"}) }

\* the waits a provider starts: one, and one more after an onClose()
WaitIds == {1, 2}

WebPages == {NoWindow} \cup BrowserPages

WebOptionSets == [readyTimeout : ReadyTimeouts]

NoFlags == [defined |-> FALSE, flags |-> {}]

\* getSegmentFlags(): window.pendo?.segmentFlags, or undefined without window
getSegmentFlags(p) ==
    IF ~p.window THEN NoFlags
    ELSE IF ~p.pendo THEN NoFlags
    ELSE [defined |-> p.hasFlags, flags |-> p.segmentFlags]

\* variant of WebBooleanResult: an empty segmentFlags array counts as missing
WebBooleanResultEmptyIsMissing(p, flagKey, defaultValue) ==
    LET flags == getSegmentFlags(p)
    IN IF ~flags.defined \/ flags.flags = {}
         THEN Result(defaultValue, "DEFAULT", "default", Undefined, Undefined)
         ELSE LET enabled == flagKey \in flags.flags
              IN Result(BoolValue(enabled),
                        IF enabled THEN "TARGETING_MATCH" ELSE "DEFAULT",
                        IF enabled THEN "on" ELSE "off",
                        Undefined, Undefined)

\* what web resolveBooleanEvaluation returns on page p
WebBooleanResult(p, flagKey, defaultValue) ==
    LET flags == getSegmentFlags(p)
    IN IF ~flags.defined
         THEN Result(defaultValue, "DEFAULT", "default", Undefined, Undefined)
         ELSE LET enabled == flagKey \in flags.flags
              IN Result(BoolValue(enabled),
                        IF enabled THEN "TARGETING_MATCH" ELSE "DEFAULT",
                        IF enabled THEN "on" ELSE "off",
                        Undefined, Undefined)

\* resolveString/Number/ObjectEvaluation of the web provider: the boolean
\* result for defaultValue false, mapped
WebTypedResult(kind, p, flagKey, defaultValue) ==
    LET boolResult == WebBooleanResult(p, flagKey, BoolValue(FALSE))
    IN IF boolResult.reason = "DEFAULT" /\ boolResult.value = BoolValue(FALSE)
         THEN Result(defaultValue, "DEFAULT", "default", Undefined, Undefined)
         ELSE Result(OnOffValue(kind, boolResult.value = BoolValue(TRUE)),
                     boolResult.reason, boolResult.variant,
                     Undefined, Undefined)

\* what operation op of the web provider returns on page p
WebResultOf(op, p) ==
    IF op.kind = "Boolean"
      THEN WebBooleanResult(p, op.flagKey, op.defaultValue)
      ELSE WebTypedResult(op.kind, p, op.flagKey, op.defaultValue)

\* variant of PendoIsReady: only isReady() counts
PendoIsReadyByCallOnly(p) == p.window /\ p.pendo /\ p.isReady = "true"

\* the readiness test of check()
PendoIsReady(p) ==
    p.window /\ p.pendo /\ (p.isReady = "true" \/ p.hasFlags)

\* variant of TimedOut: the timeout is reached, not exceeded
TimedOutInclusive(elapsed, timeout) == elapsed >= timeout

\* Date.now() - startTime > timeout
TimedOut(elapsed, timeout) == elapsed > timeout

\* resolve() on the promise of wait w: only the first call has an effect
Resolved(w, cause) ==
    IF w.state = "pending"
      THEN [w EXCEPT !.state = "resolved", !.cause = cause]
      ELSE w

\* one run of check() for wait w on page p
\* (elapsed is followed only while the loop runs)
check(w, p) ==
    IF PendoIsReady(p)
      THEN [Resolved(w, "ready") EXCEPT !.polling = FALSE, !.timerDue = FALSE,
                                        !.elapsed = 0]
    ELSE IF TimedOut(w.elapsed, w.timeout)
      THEN [Resolved(w, "timeout") EXCEPT !.polling = FALSE,
                                          !.timerDue = FALSE,
                                          !.elapsed = 0,
                                          !.warned = TRUE]
    ELSE [w EXCEPT !.polling = TRUE, !.timerDue = FALSE]

\* waitForPendo(): the listener is registered where there is a document, and
\* check() runs once at once
NewWait(timeout, p) ==
    check([timeout |-> timeout, elapsed |-> 0, state |-> "pending",
           cause |-> "none", polling |-> FALSE, timerDue |-> FALSE,
           listening |-> p.window, warned |-> FALSE,
           owner |-> "waiting", joined |-> 0], p)

\* no resolve call of the web provider has returned since the page changed
NoWebCall == [op |-> "none"]

\* the web side when there is no web provider
WebIdle ==
    /\ page = NoWindow
    /\ webOptions = [readyTimeout |-> 0]
    /\ webStatus = "NOT_READY"
    /\ readyPromise = 0
    /\ waits = <<>>
    /\ webDid = NoWebCall

\* the tracking side when nothing tracks
TrackIdle ==
    /\ hook = [eventName |-> "flag_evaluated", baseUrl |-> "https://data.pendo.io",
               trackEventSecret |-> "secret", flagFilter |-> NoFilter]
    /\ webHook = [eventName |-> "flag_evaluated", flagFilter |-> NoFilter]
    /\ window = "undefined"
    /\ posts = EmptyBag
    /\ tracked = NoTracked

\* ----------------------------------------------------------------- actions
Init ==
    /\ options \in OptionSets
    /\ status = "NOT_READY"
    /\ cache = EmptyCache
    /\ now = 0
    /\ pending = EmptyBag
    /\ nFetch = 0
    /\ returned = NoReturn
    /\ lastStore = NoStore
    /\ cleared = FALSE
    /\ TrackIdle
    /\ jzb = NoJzb
    /\ InstIdle
    /\ WebIdle
\* variant of Tick: the calls still awaiting their request are ended when
\* the clock advances
TickTimesOut ==
    /\ now < MaxTime
    /\ now' = now + 1
    /\ pending' = EmptyBag
    /\ returned' = NoReturn
    /\ UNCHANGED <<options, status, cache, nFetch, lastStore, cleared>>
    /\ UNCHANGED nonProvVars

\* the clock advances
Tick ==
    /\ now < MaxTime
    /\ now' = now + 1
    /\ returned' = NoReturn
    /\ UNCHANGED <<options, status, cache, pending, nFetch, lastStore, cleared>>
    /\ UNCHANGED nonProvVars

\* the clock advances while requests are awaited: the step of Tick, with the
\* contexts whose request is in flight marked as having waited
TickInFlight ==
    /\ now < MaxTime
    /\ pending /= EmptyBag
    /\ now' = now + 1
    /\ returned' = NoReturn
    /\ lastStore' = [c \in Contexts |->
                       [lastStore[c] EXCEPT !.waited = @ \/ BagIn(c, pending)]]
    /\ UNCHANGED <<options, status, cache, pending, nFetch, cleared>>
    /\ UNCHANGED nonProvVars

\* what the latest step meant for the caller of a resolve operation: the
\* call returned (noVisitor, cache, fetch, error) or suspended on its GET.
\* results tabulates, for each operation the caller may have invoked with
\* this context, the result that operation returns on this outcome
\* overwrote tells that the step replaced an unexpired cache entry
Return(context, source, isNull, flags, seen, results, overwrote) ==
    [source |-> source, context |-> context, isNull |-> isNull,
     flags |-> flags, response |-> seen, results |-> results,
     overwrote |-> overwrote]

Suspended(context) == [source |-> "suspended", context |-> context]
\* variant of Resolve: a provider that is not READY answers like one without
\* a visitor, without looking at the cache or sending a request
ResolveGated(context) ==
    LET visitorId == context.targetingKey
        accountId == context.accountId
        cacheKey  == CacheKey(visitorId, accountId)
    IN /\ IF status /= "READY" \/ Falsy(visitorId)
            THEN /\ returned' = Return(context, "noVisitor", TRUE, {}, NoResponse,
                                       ResultsOfFlags(TRUE, {}), FALSE)
                 /\ UNCHANGED <<pending, nFetch, cleared, lastStore>>
          ELSE IF CacheHit(cache, cacheKey, now)
            THEN /\ returned' = Return(context, "cache", FALSE,
                                       cache[cacheKey].flags, NoResponse,
                                       ResultsOfFlags(FALSE, cache[cacheKey].flags),
                                       FALSE)
                 /\ cleared' = FALSE
                 /\ UNCHANGED <<pending, nFetch, lastStore>>
          ELSE /\ nFetch < MaxFetch
               /\ pending' = pending (+) SetToBag({context})
               /\ nFetch' = nFetch + 1
               /\ returned' = Suspended(context)
               /\ cleared' = FALSE
               /\ lastStore' = [lastStore EXCEPT ![context].waited = FALSE]
       /\ UNCHANGED <<options, status, cache, now>>
       /\ UNCHANGED nonProvVars
\* variant of Resolve: a cache hit renews the entry, its lifetime counted
\* again from the time of the read
ResolveSliding(context) ==
    LET visitorId == context.targetingKey
        accountId == context.accountId
        cacheKey  == CacheKey(visitorId, accountId)
    IN /\ IF Falsy(visitorId)
            THEN /\ returned' = Return(context, "noVisitor", TRUE, {}, NoResponse,
                                       ResultsOfFlags(TRUE, {}), FALSE)
                 /\ UNCHANGED <<pending, nFetch, cleared, lastStore, cache>>
          ELSE IF CacheHit(cache, cacheKey, now)
            THEN /\ returned' = Return(context, "cache", FALSE,
                                       cache[cacheKey].flags, NoResponse,
                                       ResultsOfFlags(FALSE, cache[cacheKey].flags),
                                       FALSE)
                 /\ cache' = CacheSet(cache, cacheKey, cache[cacheKey].flags,
                                      now, options.cacheTtl)
                 /\ cleared' = FALSE
                 /\ UNCHANGED <<pending, nFetch, lastStore>>
          ELSE /\ nFetch < MaxFetch
               /\ pending' = pending (+) SetToBag({context})
               /\ nFetch' = nFetch + 1
               /\ returned' = Suspended(context)
               /\ cleared' = FALSE
               /\ lastStore' = [lastStore EXCEPT ![context].waited = FALSE]
               /\ UNCHANGED cache
       /\ UNCHANGED <<options, status, now>>
       /\ UNCHANGED nonProvVars

\* a caller invokes resolve<kind>Evaluation(flagKey, defaultValue, context):
\* the call runs into getSegmentFlags(context), which returns null, returns
\* the cached flags, or sends the GET request and suspends.  The operations
\* read flagKey and defaultValue only after getSegmentFlags has returned, so
\* a suspended call is its getSegmentFlags(context) frame.
Resolve(context) ==
    LET visitorId == context.targetingKey
        accountId == context.accountId
        cacheKey  == CacheKey(visitorId, accountId)
    IN /\ IF Falsy(visitorId)
            THEN /\ returned' = Return(context, "noVisitor", TRUE, {}, NoResponse,
                                       ResultsOfFlags(TRUE, {}), FALSE)
                 /\ UNCHANGED <<pending, nFetch, cleared, lastStore>>
          ELSE IF CacheHit(cache, cacheKey, now)
            THEN /\ returned' = Return(context, "cache", FALSE,
                                       cache[cacheKey].flags, NoResponse,
                                       ResultsOfFlags(FALSE, cache[cacheKey].flags),
                                       FALSE)
                 /\ cleared' = FALSE
                 /\ UNCHANGED <<pending, nFetch, lastStore>>
          ELSE /\ nFetch < MaxFetch
               /\ pending' = pending (+) SetToBag({context})
               /\ nFetch' = nFetch + 1
               /\ returned' = Suspended(context)
               /\ cleared' = FALSE
               /\ lastStore' = [lastStore EXCEPT ![context].waited = FALSE]
       /\ UNCHANGED <<options, status, cache, now>>
       /\ UNCHANGED nonProvVars

\* expiresAt of the entry under key, 0 when there is none
StoredExpiry(c, key) == IF key \in DOMAIN c THEN c[key].expiresAt ELSE 0
\* variant of Respond: a request that failed is sent once more before the
\* call gives up
RespondRetries(context, resp) ==
    LET cacheKey == CacheKey(context.targetingKey, context.accountId)
        outcome  == fetchSegmentFlags(resp)
    IN /\ BagIn(context, pending)
       /\ IF outcome.threw /\ nFetch < MaxFetch
            THEN /\ nFetch' = nFetch + 1
                 /\ returned' = Suspended(context)
                 /\ UNCHANGED <<pending, cache, lastStore>>
            ELSE /\ pending' = pending (-) SetToBag({context})
                 /\ cache' = CacheAfterFetch(cache, cacheKey, outcome, now,
                                             options.cacheTtl)
                 /\ UNCHANGED nFetch
                 /\ IF outcome.threw
                      THEN /\ returned' = Return(context, "error", FALSE, {},
                                                 Seen(resp),
                                                 ResultsOfError(outcome.error),
                                                 FALSE)
                           /\ lastStore' = [lastStore EXCEPT
                                              ![context].waited = FALSE]
                      ELSE /\ lastStore' = [lastStore EXCEPT ![context] =
                                    [expiresAt |-> StoredExpiry(cache', cacheKey),
                                     special |-> resp.status \in {202, 451},
                                     waited |-> lastStore[context].waited]]
                           /\ returned' = Return(context, "fetch", FALSE,
                                                 outcome.flags, Seen(resp),
                                                 ResultsOfFlags(FALSE, outcome.flags),
                                                 CacheHit(cache, cacheKey, now))
       /\ UNCHANGED <<options, status, now, cleared>>
       /\ UNCHANGED nonProvVars

\* the GET request of a suspended call settles: fetchSegmentFlags returns or
\* throws, getSegmentFlags stores the flags or rethrows, and the resolve
\* operation that was waiting for it returns its result
Respond(context, resp) ==
    LET cacheKey == CacheKey(context.targetingKey, context.accountId)
        outcome  == fetchSegmentFlags(resp)
    IN /\ BagIn(context, pending)
       /\ pending' = pending (-) SetToBag({context})
       /\ cache' = CacheAfterFetch(cache, cacheKey, outcome, now, options.cacheTtl)
       /\ IF outcome.threw
            THEN /\ returned' = Return(context, "error", FALSE, {}, Seen(resp),
                                       ResultsOfError(outcome.error), FALSE)
                 /\ lastStore' = [lastStore EXCEPT ![context].waited = FALSE]
            ELSE /\ lastStore' = [lastStore EXCEPT ![context] =
                                    [expiresAt |-> StoredExpiry(cache', cacheKey),
                                     special |-> resp.status \in {202, 451},
                                     waited |-> lastStore[context].waited]]
                 /\ returned' = Return(context, "fetch", FALSE, outcome.flags,
                                       Seen(resp),
                                       ResultsOfFlags(FALSE, outcome.flags),
                                       CacheHit(cache, cacheKey, now))
       /\ UNCHANGED <<options, status, now, nFetch, cleared>>
       /\ UNCHANGED nonProvVars

\* clearCache()
clearCache ==
    /\ cache' = EmptyCache
    /\ lastStore' = NoStore
    /\ cleared' = TRUE
    /\ returned' = NoReturn
    /\ UNCHANGED <<options, status, now, pending, nFetch>>
    /\ UNCHANGED nonProvVars

\* variant of InitializeError: defaultUrl is validated before apiKey
InitializeErrorUrlFirst(opts) ==
    IF Falsy(opts.defaultUrl)
      THEN "Pendo defaultUrl is required for server-side evaluation"
    ELSE IF Falsy(opts.apiKey) THEN "Pendo API key is required"
    ELSE Undefined

\* the message of the Error initialize() throws, Undefined when it returns
InitializeError(opts) ==
    IF Falsy(opts.apiKey) THEN "Pendo API key is required"
    ELSE IF Falsy(opts.defaultUrl)
      THEN "Pendo defaultUrl is required for server-side evaluation"
    ELSE Undefined

\* initialize(): throws on an empty apiKey or defaultUrl, else marks ready
initialize ==
    LET error == InitializeError(options)
    IN /\ status' = IF error = Undefined THEN "READY" ELSE status
       /\ returned' = [source |-> "initialize", error |-> error]
       /\ UNCHANGED <<options, cache, now, pending, nFetch, lastStore, cleared>>
       /\ UNCHANGED nonProvVars

\* variant of onClose: the status is reset, the cache is kept
onCloseKeepsCache ==
    /\ status' = "NOT_READY"
    /\ returned' = [source |-> "onClose", wasReady |-> status = "READY",
                    hadEntries |-> DOMAIN cache /= {}]
    /\ UNCHANGED <<options, cache, now, pending, nFetch, lastStore, cleared>>
    /\ UNCHANGED nonProvVars

\* onClose(); the label keeps what the provider looked like before the call
onClose ==
    /\ status' = "NOT_READY"
    /\ cache' = EmptyCache
    /\ lastStore' = NoStore
    /\ returned' = [source |-> "onClose", wasReady |-> status = "READY",
                    hadEntries |-> DOMAIN cache /= {}]
    /\ UNCHANGED <<options, now, pending, nFetch, cleared>>
    /\ UNCHANGED nonProvVars

Next ==
    \/ Tick
    \/ \E context \in Contexts : Resolve(context)
    \/ \E context \in BagToSet(pending), resp \in Responses : Respond(context, resp)
    \/ clearCache
    \/ initialize
    \/ onClose

Spec == Init /\ [][Next]_vars

\* resolutions against the clock: every advance of the clock is either one
\* with no request in flight or one that marks the requests that waited
NextClock ==
    \/ Tick /\ pending = EmptyBag
    \/ TickInFlight
    \/ \E context \in Contexts : Resolve(context)
    \/ \E context \in BagToSet(pending), resp \in Responses : Respond(context, resp)

\* the provider constructed with a cacheTtl of several clock values
InitClock ==
    /\ options \in ClockOptionSets
    /\ status = "NOT_READY"
    /\ cache = EmptyCache
    /\ now = 0
    /\ pending = EmptyBag
    /\ nFetch = 0
    /\ returned = NoReturn
    /\ lastStore = NoStore
    /\ cleared = FALSE
    /\ TrackIdle
    /\ jzb = NoJzb
    /\ InstIdle
    /\ WebIdle

SpecClock == InitClock /\ [][NextClock]_vars

\* the provider constructed with options that initialize() may reject
InitAnyOptions ==
    /\ options \in AnyOptionSets
    /\ status = "NOT_READY"
    /\ cache = EmptyCache
    /\ now = 0
    /\ pending = EmptyBag
    /\ nFetch = 0
    /\ returned = NoReturn
    /\ lastStore = NoStore
    /\ cleared = FALSE
    /\ TrackIdle
    /\ jzb = NoJzb
    /\ InstIdle
    /\ WebIdle

SpecAnyOptions == InitAnyOptions /\ [][Next]_vars

\* ------------------------------------------------- event tracking actions
ServerProviderName == "pendo-server-provider"
WebProviderName == "pendo-provider"

\* the call sites of a tracking step's fetch() calls, as a bag
Sent(site, fetched) ==
    IF fetched = <<>> THEN EmptyBag ELSE SetToBag({site})
\* variant of track: a tracked visitor's cached flags are dropped, so that
\* the next resolution fetches them again
trackInvalidates(eventName, context, details) ==
    LET did == TrackDid(options, eventName, context, now, details)
    IN /\ BagCardinality(posts) + Len(did.fetched) <= MaxPosts
       /\ posts' = posts (+) Sent("track", did.fetched)
       /\ tracked' = [op |-> "track", context |-> context,
                      fetched |-> did.fetched, logged |-> did.logged,
                      pendo |-> did.pendo]
       /\ cache' = IF did.fetched = <<>> THEN cache ELSE EmptyCache
       /\ UNCHANGED <<hook, webHook, window>>
       /\ UNCHANGED <<options, status, now, pending, nFetch, returned,
                      lastStore, cleared>>
       /\ UNCHANGED <<jzbVars, instVars, webVars>>

\* provider.track(trackingEventName, context, trackingEventDetails): the
\* call returns with its POST request, if it sent one, still in flight
track(eventName, context, details) ==
    LET did == TrackDid(options, eventName, context, now, details)
    IN /\ BagCardinality(posts) + Len(did.fetched) <= MaxPosts
       /\ posts' = posts (+) Sent("track", did.fetched)
       /\ tracked' = [op |-> "track", context |-> context,
                      fetched |-> did.fetched, logged |-> did.logged,
                      pendo |-> did.pendo]
       /\ UNCHANGED <<hook, webHook, window>>
       /\ UNCHANGED nonTrackVars

\* the server hook's after(hookContext, evaluationDetails)
after(flagKey, context, details) ==
    LET did == AfterDid(hook, flagKey, context, details, ServerProviderName, now)
    IN /\ BagCardinality(posts) + Len(did.fetched) <= MaxPosts
       /\ posts' = posts (+) Sent("after", did.fetched)
       /\ tracked' = [op |-> "after", flagKey |-> flagKey, context |-> context,
                      details |-> details, providerName |-> ServerProviderName,
                      fetched |-> did.fetched, logged |-> did.logged,
                      pendo |-> did.pendo]
       /\ UNCHANGED <<hook, webHook, window>>
       /\ UNCHANGED nonTrackVars

\* the web hook's after(hookContext, evaluationDetails)
webAfter(flagKey, details) ==
    LET did == WebAfterDid(webHook, window, flagKey, details, WebProviderName)
    IN /\ tracked' = [op |-> "webAfter", flagKey |-> flagKey,
                      details |-> details, providerName |-> WebProviderName,
                      fetched |-> did.fetched, logged |-> did.logged,
                      pendo |-> did.pendo]
       /\ UNCHANGED <<hook, webHook, window, posts>>
       /\ UNCHANGED nonTrackVars

\* a POST request in flight settles: a response of any kind is ignored, a
\* rejection runs the catch handler of the call site
settle(site, outcome) ==
    LET handled == IF outcome.settled = "rejected"
                     THEN PostRejected(site, outcome.message)
                     ELSE [logged |-> <<>>, unhandled |-> FALSE]
    IN /\ BagIn(site, posts)
       /\ posts' = posts (-) SetToBag({site})
       /\ tracked' = [op |-> "settle", site |-> site,
                      settled |-> outcome.settled, fetched |-> <<>>,
                      logged |-> handled.logged, pendo |-> <<>>,
                      unhandled |-> handled.unhandled]
       /\ UNCHANGED <<hook, webHook, window>>
       /\ UNCHANGED nonTrackVars

\* a provider with its tracking options, a server hook and a web hook
InitTrack ==
    /\ options \in TrackOptionSets
    /\ status = "NOT_READY"
    /\ cache = EmptyCache
    /\ now = 0
    /\ pending = EmptyBag
    /\ nFetch = 0
    /\ returned = NoReturn
    /\ lastStore = NoStore
    /\ cleared = FALSE
    /\ hook \in HookOptionSets
    /\ webHook \in WebHookOptionSets
    /\ window \in Windows
    /\ posts = EmptyBag
    /\ tracked = NoTracked
    /\ jzb = NoJzb
    /\ InstIdle
    /\ WebIdle

NextTrack ==
    \/ \E context \in Contexts, details \in TrackingEventDetails :
          track("button_clicked", context, details)
    \/ \E flagKey \in FlagKeys, context \in Contexts,
          details \in EvaluationDetails : after(flagKey, context, details)
    \/ \E flagKey \in FlagKeys, details \in EvaluationDetails :
          webAfter(flagKey, details)
    \/ \E site \in BagToSet(posts), outcome \in PostOutcomes :
          settle(site, outcome)

SpecTrack == InitTrack /\ [][NextTrack]_vars

\* a provider on which resolutions, the lifecycle calls, track() and the
\* telemetry hook interleave
InitServer ==
    /\ options \in [apiKey : {"key"}, defaultUrl : {"https://example.com"},
                     baseUrl : {"https://data.pendo.io"}, cacheTtl : {MaxTtl},
                     trackEventSecret : {Undefined, "secret"}]
    /\ status = "NOT_READY"
    /\ cache = EmptyCache
    /\ now = 0
    /\ pending = EmptyBag
    /\ nFetch = 0
    /\ returned = NoReturn
    /\ lastStore = NoStore
    /\ cleared = FALSE
    /\ TrackIdle
    /\ jzb = NoJzb
    /\ InstIdle
    /\ WebIdle

\* the contexts of one visitor, with and without a targetingKey
ServerContexts == { c \in Contexts : c.accountId = Undefined }

NextServer ==
    \/ \E context \in ServerContexts : Resolve(context)
    \/ \E context \in BagToSet(pending), resp \in Responses : Respond(context, resp)
    \/ clearCache
    \/ initialize
    \/ onClose
    \/ \E context \in ServerContexts, details \in TrackingEventDetails :
          track("button_clicked", context, details)
    \/ \E context \in ServerContexts :
          after("f1", context, [value |-> JsBool(TRUE), variant |-> "on",
                                reason |-> "TARGETING_MATCH"])
    \/ \E site \in BagToSet(posts), outcome \in PostOutcomes :
          settle(site, outcome)

SpecServer == InitServer /\ [][NextServer]_vars

\* resolve calls while the clock advances, when every request in flight
\* settles at last, by a response or by a failure
NextSettling ==
    \/ Tick
    \/ \E context \in ServerContexts : Resolve(context)
    \/ \E context \in BagToSet(pending), resp \in Responses : Respond(context, resp)

SpecSettling ==
    /\ Init
    /\ [][NextSettling]_vars
    /\ \A context \in ServerContexts :
          WF_vars(\E resp \in Responses : Respond(context, resp))

\* ------------------------------------------------ request encoding actions
\* encodeJzb(payload) runs; pako.deflate returns compressed
Encode ==
    /\ jzb.stage = "input"
    /\ jzb' = [stage |-> "encoded", payload |-> jzb.payload,
               compressed |-> jzb.compressed,
               base64 |-> Base64(jzb.compressed),
               token |-> encodeJzb(jzb.payload, jzb.compressed)]
    /\ UNCHANGED nonJzbVars

\* the token of the latest call is decoded again
Decode ==
    /\ jzb.stage = "encoded"
    /\ jzb' = [stage |-> "decoded", payload |-> jzb.payload,
               compressed |-> jzb.compressed, base64 |-> jzb.base64,
               token |-> jzb.token,
               decoded |-> decodeJzb(jzb.token, jzb.payload, jzb.compressed)]
    /\ UNCHANGED nonJzbVars

\* a payload about to be encoded, and the bytes deflate will give for it
InitJzb ==
    /\ options = [apiKey |-> "key", defaultUrl |-> "https://example.com",
                  baseUrl |-> "https://data.pendo.io", cacheTtl |-> 0]
    /\ status = "NOT_READY"
    /\ cache = EmptyCache
    /\ now = 0
    /\ pending = EmptyBag
    /\ nFetch = 0
    /\ returned = NoReturn
    /\ lastStore = NoStore
    /\ cleared = FALSE
    /\ TrackIdle
    /\ jzb \in [stage : {"input"}, payload : Payloads,
                compressed : DeflateOutputs]
    /\ InstIdle
    /\ WebIdle

NextJzb ==
    \/ Encode
    \/ Decode

SpecJzb == InitJzb /\ [][NextJzb]_vars

\* ---------------------------------------- actions of two provider instances
\* what a step of instance i meant for the caller of a resolve operation
Acted(i, source, context, flags, resp, results) ==
    [inst |-> i, source |-> source, context |-> context, flags |-> flags,
     response |-> resp, results |-> results]

NoAnswer == CHOOSE r \in Responses : r.settled = "rejected"

\* variant of IResolve: a call waits while another call of the instance is
\* suspended on its request
IResolveExclusive(i, context) ==
    LET me == insts[i]
        c == CacheOf(heap, insts, i)
        cacheKey == CacheKey(context.targetingKey, context.accountId)
    IN /\ me.pending = EmptyBag
       /\ IF Falsy(context.targetingKey)
            THEN /\ acted' = Acted(i, "noVisitor", context, {}, NoAnswer,
                                   ResultsOfFlags(TRUE, {}))
                 /\ UNCHANGED insts
          ELSE IF CacheHit(c, cacheKey, now)
            THEN /\ acted' = Acted(i, "cache", context, c[cacheKey].flags,
                                   NoAnswer,
                                   ResultsOfFlags(FALSE, c[cacheKey].flags))
                 /\ UNCHANGED insts
          ELSE /\ InFlight(insts) < MaxInFlight
               /\ insts' = [insts EXCEPT ![i].pending = @ (+) SetToBag({context})]
               /\ acted' = [inst |-> i, source |-> "suspended",
                            context |-> context]
       /\ UNCHANGED heap
       /\ UNCHANGED nonInstVars

\* resolve<kind>Evaluation(flagKey, defaultValue, context) on instance i, up
\* to its return or its suspension in getSegmentFlags
IResolve(i, context) ==
    LET me == insts[i]
        c == CacheOf(heap, insts, i)
        cacheKey == CacheKey(context.targetingKey, context.accountId)
    IN /\ IF Falsy(context.targetingKey)
            THEN /\ acted' = Acted(i, "noVisitor", context, {}, NoAnswer,
                                   ResultsOfFlags(TRUE, {}))
                 /\ UNCHANGED insts
          ELSE IF CacheHit(c, cacheKey, now)
            THEN /\ acted' = Acted(i, "cache", context, c[cacheKey].flags,
                                   NoAnswer,
                                   ResultsOfFlags(FALSE, c[cacheKey].flags))
                 /\ UNCHANGED insts
          ELSE /\ InFlight(insts) < MaxInFlight
               /\ insts' = [insts EXCEPT ![i].pending = @ (+) SetToBag({context})]
               /\ acted' = [inst |-> i, source |-> "suspended",
                            context |-> context]
       /\ UNCHANGED heap
       /\ UNCHANGED nonInstVars

\* the request of a suspended call of instance i settles
IRespond(i, context, resp) ==
    LET me == insts[i]
        cacheKey == CacheKey(context.targetingKey, context.accountId)
        outcome == fetchSegmentFlags(resp)
    IN /\ BagIn(context, me.pending)
       /\ heap' = [heap EXCEPT ![me.cacheRef] =
                      CacheAfterFetch(@, cacheKey, outcome, now, me.cacheTtl)]
       /\ insts' = [insts EXCEPT
                      ![i].pending = @ (-) SetToBag({context}),
                      ![i].wrote = IF outcome.threw THEN @ ELSE @ \cup {cacheKey}]
       /\ acted' = IF outcome.threw
                      THEN Acted(i, "error", context, {}, resp,
                                 ResultsOfError(outcome.error))
                      ELSE Acted(i, "fetch", context, outcome.flags, resp,
                                 ResultsOfFlags(FALSE, outcome.flags))
       /\ UNCHANGED nonInstVars

\* clearCache() on instance i
IClearCache(i) ==
    /\ heap' = [heap EXCEPT ![insts[i].cacheRef] = EmptyCache]
    /\ insts' = [insts EXCEPT ![i].wrote = {}]
    /\ acted' = [inst |-> i, source |-> "clearCache"]
    /\ UNCHANGED nonInstVars

\* onClose() on instance i
IOnClose(i) ==
    /\ heap' = [heap EXCEPT ![insts[i].cacheRef] = EmptyCache]
    /\ insts' = [insts EXCEPT ![i].wrote = {}, ![i].status = "NOT_READY"]
    /\ acted' = [inst |-> i, source |-> "onClose"]
    /\ UNCHANGED nonInstVars

\* two providers, each constructed with its own cacheTtl
InitInstances ==
    /\ options = [apiKey |-> "key", defaultUrl |-> "https://example.com",
                  baseUrl |-> "https://data.pendo.io", cacheTtl |-> 0]
    /\ status = "NOT_READY"
    /\ cache = EmptyCache
    /\ now = 0
    /\ pending = EmptyBag
    /\ nFetch = 0
    /\ returned = NoReturn
    /\ lastStore = NoStore
    /\ cleared = FALSE
    /\ TrackIdle
    /\ jzb = NoJzb
    /\ \E t1 \in {0, MaxTtl}, t2 \in {0, MaxTtl} :
          insts = [i \in Instances |-> NewProvider(i, IF i = 1 THEN t1 ELSE t2)]
    /\ heap = [ref \in {insts[i].cacheRef : i \in Instances} |-> EmptyCache]
    /\ acted = NoAct
    /\ WebIdle

NextInstances ==
    \/ \E i \in Instances, context \in InstContexts : IResolve(i, context)
    \/ \E i \in Instances, context \in InstContexts, resp \in InstResponses :
          IRespond(i, context, resp)
    \/ \E i \in Instances : IClearCache(i)
    \/ \E i \in Instances : IOnClose(i)

SpecInstances == InitInstances /\ [][NextInstances]_vars

\* one provider resolving for contexts whose ids contain the separator or
\* whose accountId is the empty string
KeyContexts ==
    { [targetingKey |-> "a:b", accountId |-> Undefined],
      [targetingKey |-> "a",   accountId |-> "b:"],
      [targetingKey |-> "u1",  accountId |-> Undefined],
      [targetingKey |-> "u1",  accountId |-> ""] }

NextKeys ==
    \/ \E context \in KeyContexts : IResolve(1, context)
    \/ \E context \in KeyContexts, resp \in InstResponses :
          IRespond(1, context, resp)
    \/ IClearCache(1)
    \/ IOnClose(1)

SpecKeys == InitInstances /\ [][NextKeys]_vars

\* ------------------------------------------------ actions of the web provider
\* variant of webInitialize: every call starts a wait of its own
webInitializeAgain ==
    /\ Len(waits) + 1 \in WaitIds
    /\ waits' = Append(waits, NewWait(webOptions.readyTimeout, page))
    /\ readyPromise' = Len(waits) + 1
    /\ UNCHANGED <<page, webOptions, webStatus, webDid>>
    /\ UNCHANGED nonWebVars

\* initialize(), up to its first suspension
webInitialize ==
    /\ IF readyPromise /= 0
         THEN /\ waits[readyPromise].joined < MaxJoined
              /\ waits' = [waits EXCEPT ![readyPromise].joined = @ + 1]
              /\ UNCHANGED readyPromise
         ELSE /\ Len(waits) + 1 \in WaitIds
              /\ waits' = Append(waits, NewWait(webOptions.readyTimeout, page))
              /\ readyPromise' = Len(waits) + 1
    /\ UNCHANGED <<page, webOptions, webStatus, webDid>>
    /\ UNCHANGED nonWebVars

\* the initialize() call that started wait i resumes after its await
Continue(i) ==
    /\ i \in DOMAIN waits
    /\ waits[i].state = "resolved"
    /\ waits[i].owner = "waiting"
    /\ webStatus' = "READY"
    /\ waits' = [waits EXCEPT ![i].owner = "done"]
    /\ UNCHANGED <<page, webOptions, readyPromise, webDid>>
    /\ UNCHANGED nonWebVars

\* an initialize() call that returned the promise of wait i settles
SettleJoined(i) ==
    /\ i \in DOMAIN waits
    /\ waits[i].state = "resolved"
    /\ waits[i].owner = "done"
    /\ waits[i].joined > 0
    /\ waits' = [waits EXCEPT ![i].joined = @ - 1]
    /\ UNCHANGED <<page, webOptions, webStatus, readyPromise, webDid>>
    /\ UNCHANGED nonWebVars

\* PollInterval ms pass: the pending timers become due
WebTick ==
    /\ \E i \in DOMAIN waits : waits[i].polling
    /\ waits' = [i \in DOMAIN waits |->
                   IF waits[i].polling
                     THEN [waits[i] EXCEPT
                             !.elapsed = IF @ + PollInterval > ElapsedCap
                                           THEN ElapsedCap
                                           ELSE @ + PollInterval,
                             !.timerDue = TRUE]
                     ELSE waits[i]]
    /\ UNCHANGED <<page, webOptions, webStatus, readyPromise, webDid>>
    /\ UNCHANGED nonWebVars

\* the timer of wait i fires: check() runs
Poll(i) ==
    /\ i \in DOMAIN waits
    /\ waits[i].polling
    /\ waits[i].timerDue
    /\ waits' = [waits EXCEPT ![i] = check(@, page)]
    /\ UNCHANGED <<page, webOptions, webStatus, readyPromise, webDid>>
    /\ UNCHANGED nonWebVars

\* a pendo:ready event is dispatched on document: every registered listener
\* runs, once
PendoReadyEvent ==
    /\ page.window
    /\ waits' = [i \in DOMAIN waits |->
                   IF waits[i].listening
                     THEN [Resolved(waits[i], "event") EXCEPT !.listening = FALSE]
                     ELSE waits[i]]
    /\ UNCHANGED <<page, webOptions, webStatus, readyPromise, webDid>>
    /\ UNCHANGED nonWebVars

\* onClose() of the web provider
webOnClose ==
    /\ webStatus' = "NOT_READY"
    /\ readyPromise' = 0
    /\ UNCHANGED <<page, webOptions, waits, webDid>>
    /\ UNCHANGED nonWebVars

\* the Pendo agent loads or updates window.pendo
PageChange(p) ==
    /\ page.window
    /\ p \in BrowserPages
    /\ p /= page
    /\ page' = p
    /\ webDid' = NoWebCall
    /\ UNCHANGED <<webOptions, webStatus, readyPromise, waits>>
    /\ UNCHANGED nonWebVars

\* resolve<kind>Evaluation(flagKey, defaultValue, context) of the web
\* provider
webResolve(op) ==
    /\ webDid' = [op |-> "resolve", call |-> op, on |-> page,
                  result |-> WebResultOf(op, page)]
    /\ UNCHANGED <<page, webOptions, webStatus, readyPromise, waits>>
    /\ UNCHANGED nonWebVars

InitWeb ==
    /\ options = [apiKey |-> "key", defaultUrl |-> "https://example.com",
                  baseUrl |-> "https://data.pendo.io", cacheTtl |-> 0]
    /\ status = "NOT_READY"
    /\ cache = EmptyCache
    /\ now = 0
    /\ pending = EmptyBag
    /\ nFetch = 0
    /\ returned = NoReturn
    /\ lastStore = NoStore
    /\ cleared = FALSE
    /\ TrackIdle
    /\ jzb = NoJzb
    /\ InstIdle
    /\ page \in {NoWindow} \cup WaitPages
    /\ webOptions \in WebOptionSets
    /\ webStatus = "NOT_READY"
    /\ readyPromise = 0
    /\ waits = <<>>
    /\ webDid = NoWebCall

NextWeb ==
    \/ webInitialize
    \/ \E i \in WaitIds : Continue(i)
    \/ \E i \in WaitIds : SettleJoined(i)
    \/ WebTick
    \/ \E i \in WaitIds : Poll(i)
    \/ PendoReadyEvent
    \/ webOnClose
    \/ \E p \in WaitPages : PageChange(p)

SpecWeb == InitWeb /\ [][NextWeb]_vars

\* time passes, due timers fire and resolved promises run their continuations
WebFairness ==
    /\ WF_vars(WebTick)
    /\ \A i \in WaitIds :
          WF_vars(Poll(i)) /\ WF_vars(Continue(i)) /\ WF_vars(SettleJoined(i))

SpecWebFair == InitWeb /\ [][NextWeb]_vars /\ WebFairness

\* flag evaluation on a page, whatever the provider's lifecycle state
InitWebFlags ==
    /\ options = [apiKey |-> "key", defaultUrl |-> "https://example.com",
                  baseUrl |-> "https://data.pendo.io", cacheTtl |-> 0]
    /\ status = "NOT_READY"
    /\ cache = EmptyCache
    /\ now = 0
    /\ pending = EmptyBag
    /\ nFetch = 0
    /\ returned = NoReturn
    /\ lastStore = NoStore
    /\ cleared = FALSE
    /\ TrackIdle
    /\ jzb = NoJzb
    /\ InstIdle
    /\ page \in WebPages
    /\ webOptions = [readyTimeout |-> 0]
    /\ webStatus = "NOT_READY"
    /\ readyPromise = 0
    /\ waits = <<>>
    /\ webDid = NoWebCall

NextWebFlags ==
    \/ \E op \in Operations : webResolve(op)
    \/ \E p \in BrowserPages : PageChange(p)

SpecWebFlags == InitWebFlags /\ [][NextWebFlags]_vars

TypeOK ==
    /\ status \in {"NOT_READY", "READY"}
    /\ now \in 0..MaxTime
    /\ nFetch \in 0..MaxFetch

\* ------------------------------------------------------- claim vocabulary
BoolOps == {op \in Operations : op.kind = "Boolean"}

\* the context carries a visitor id
HasTargetingKey(context) ==
    context.targetingKey /= Undefined /\ context.targetingKey /= ""

\* the latest step was the start of a resolve call
CallStarted(r) == r.source \in {"noVisitor", "cache", "suspended"}

\* the latest step was the completion of a call's GET request
FetchSettled(r) == r.source \in {"fetch", "error"}

\* the latest step returned a FlagSet to the resolve operation
FlagSetObtained(r) == r.source \in {"fetch", "cache"}

Enabled == Result(BoolValue(TRUE), "TARGETING_MATCH", "on", Undefined, Undefined)
Disabled == Result(BoolValue(FALSE), "DEFAULT", "off", Undefined, Undefined)
Defaulted(op) == Result(op.defaultValue, "DEFAULT", "default", Undefined, Undefined)

\* C1: whenever a resolve call with a targetingKey obtained a FlagSet (from
\* a successful fetch or an unexpired cache entry) that contains flagKey,
\* resolveBooleanEvaluation returns {true, TARGETING_MATCH, "on"}, for every
\* flagKey and defaultValue.
C1_EnabledWhenInFlagSet ==
    FlagSetObtained(returned) =>
        \A op \in BoolOps :
            op.flagKey \in returned.flags => returned.results[op] = Enabled

C1_Witness ==
    /\ returned.source = "cache"
    /\ HasTargetingKey(returned.context)
    /\ "f1" \in returned.flags

\* C2: whenever the obtained FlagSet does not contain flagKey,
\* resolveBooleanEvaluation returns {false, DEFAULT, "off"}, also when the
\* caller's defaultValue is true.
C2_DisabledWhenNotInFlagSet ==
    FlagSetObtained(returned) =>
        \A op \in BoolOps :
            op.flagKey \notin returned.flags => returned.results[op] = Disabled

C2_Witness ==
    /\ returned.source = "fetch"
    /\ returned.flags = {"f1"}
    /\ \E op \in BoolOps : op.flagKey = "f2" /\ op.defaultValue = BoolValue(TRUE)

\* C3: a resolve call whose context has no targetingKey returns, for each of
\* the four operations, {defaultValue, DEFAULT, "default"}, sends no request
\* and leaves the cache unchanged.
C3_NoVisitorReturnsDefault ==
    [][ (CallStarted(returned') /\ ~HasTargetingKey(returned'.context)) =>
           /\ returned'.source = "noVisitor"
           /\ \A op \in Operations : returned'.results[op] = Defaulted(op)
           /\ nFetch' = nFetch
           /\ pending' = pending
           /\ cache' = cache ]_vars

C3_Witness ==
    /\ returned.source = "noVisitor"
    /\ returned.context.targetingKey = ""
    /\ cache /= EmptyCache

\* C4: once a fetch for a context has completed and stored its entry, every
\* later resolve call for the same context that starts before that entry's
\* expiresAt, with no clearCache() or onClose() in between, is served from
\* the cache and sends no request.
C4_OneFetchWithinTtl ==
    [][ (/\ CallStarted(returned')
         /\ HasTargetingKey(returned'.context)
         /\ now < lastStore[returned'.context].expiresAt) =>
           /\ returned'.source = "cache"
           /\ nFetch' = nFetch
           /\ pending' = pending ]_vars

C4_Witness ==
    /\ returned.source = "cache"
    /\ now < lastStore[returned.context].expiresAt
    /\ nFetch = 1

\* C5 (as claimed): the first resolve call with a targetingKey that starts
\* after clearCache() returned sends a request, in every interleaving.
C5_FetchAfterClearCache ==
    [][ (/\ cleared
         /\ CallStarted(returned')
         /\ HasTargetingKey(returned'.context)) =>
           /\ returned'.source = "suspended"
           /\ nFetch' = nFetch + 1 ]_vars

\* C6: a call is served from a cache entry only if now < expiresAt at the
\* lookup; at now >= expiresAt the entry, though still in the map, counts as
\* absent and the call sends a request.
C6_ExpiredEntryIsAbsent ==
    [][ (CallStarted(returned') /\ HasTargetingKey(returned'.context)) =>
           LET key == CacheKey(returned'.context.targetingKey,
                               returned'.context.accountId)
           IN /\ returned'.source = "cache" =>
                    key \in DOMAIN cache /\ now < cache[key].expiresAt
              /\ (key \in DOMAIN cache /\ now >= cache[key].expiresAt) =>
                    /\ returned'.source = "suspended"
                    /\ nFetch' = nFetch + 1
                    /\ cache' = cache ]_vars

C6_Witness ==
    /\ returned.source = "suspended"
    /\ LET key == CacheKey(returned.context.targetingKey, returned.context.accountId)
       IN key \in DOMAIN cache /\ now >= cache[key].expiresAt

\* C7: every failure of the remote request (429, another non-success status,
\* a transport failure, an unparsable body) ends in a returned result, for
\* each of the four operations, with reason ERROR, errorCode GENERAL, an
\* errorMessage and the caller's defaultValue.
C7_ErrorsBecomeResults ==
    /\ (FetchSettled(returned) /\ returned.response.failure /= "none") =>
           returned.source = "error"
    /\ returned.source = "error" =>
           \A op \in Operations :
               /\ returned.results[op].reason = "ERROR"
               /\ returned.results[op].errorCode = "GENERAL"
               /\ returned.results[op].errorMessage /= Undefined
               /\ returned.results[op].value = op.defaultValue

C7_Witness ==
    /\ returned.source = "error"
    /\ returned.response.failure = "body"
    /\ returned.response.ok

\* C8: the errorMessage names the failure: 429 gives "Pendo API rate limit
\* exceeded", any other non-ok status except 202 and 451 gives the status
\* and status text, a transport failure gives the failure's own message.
C8_ErrorMessages ==
    returned.source = "error" =>
        \A op \in Operations :
            LET msg  == returned.results[op].errorMessage
                seen == returned.response
            IN /\ (seen.settled = "response" /\ seen.status = 429) =>
                     msg = "Pendo API rate limit exceeded"
               /\ (seen.settled = "response" /\ ~seen.ok
                     /\ seen.status \notin {202, 429, 451}) =>
                     msg = "Pendo API error: " \o ToString(seen.status) \o " "
                             \o StatusTextOf(seen.status)
               /\ seen.settled = "rejected" => msg = seen.message

C8_Witness ==
    /\ returned.source = "error"
    /\ returned.response.settled = "response"
    /\ returned.response.status = 429
    /\ ~returned.response.ok

\* C9: a 202 or 451 response, whatever its ok flag and body, gives the empty
\* FlagSet: resolveBooleanEvaluation returns {false, DEFAULT, "off"} for
\* every flag key, the empty set is stored in the cache, and the next call
\* for the same context within the TTL sends no request.
C9_SpecialStatusesAreEmpty ==
    /\ [](( /\ FetchSettled(returned)
            /\ returned.response.settled = "response"
            /\ returned.response.status \in {202, 451}) =>
              LET key == CacheKey(returned.context.targetingKey,
                                  returned.context.accountId)
              IN /\ returned.source = "fetch"
                 /\ returned.flags = {}
                 /\ \A op \in BoolOps : returned.results[op] = Disabled
                 /\ key \in DOMAIN cache
                 /\ cache[key].flags = {})
    /\ [][ (/\ CallStarted(returned')
            /\ HasTargetingKey(returned'.context)
            /\ lastStore[returned'.context].special
            /\ now < lastStore[returned'.context].expiresAt) =>
              /\ returned'.source = "cache"
              /\ nFetch' = nFetch ]_vars

C9_Witness ==
    /\ returned.source = "cache"
    /\ lastStore[returned.context].special
    /\ returned.flags = {}

TypedOps == Operations \ BoolOps

\* the latest step returned a result to the caller of a resolve operation
HasResults(r) == r.source \in {"noVisitor", "cache", "fetch", "error"}

\* what resolveBooleanEvaluation(op.flagKey, false, context) returned inside
\* the typed operation op
Underlying(r, op) ==
    r.results[[kind |-> "Boolean", flagKey |-> op.flagKey,
               defaultValue |-> BoolValue(FALSE)]]

\* the values the typed operations document for an enabled / disabled flag
OnValue(kind) ==
    CASE kind = "String" -> StringValue("on")
      [] kind = "Number" -> NumberValue(1)
      [] kind = "Object" -> ObjectValue("{enabled:true}")

OffValue(kind) ==
    CASE kind = "String" -> StringValue("off")
      [] kind = "Number" -> NumberValue(0)
      [] kind = "Object" -> ObjectValue("{enabled:false}")

\* C11: whenever the underlying boolean resolution has reason ERROR, the
\* string, number and object operations return the caller's defaultValue
\* with reason ERROR, the boolean result's errorCode and errorMessage, and
\* no variant.
C11_TypedErrorsPropagate ==
    HasResults(returned) =>
        \A op \in TypedOps :
            LET b == Underlying(returned, op)
            IN b.reason = "ERROR" =>
                 /\ b.errorMessage /= Undefined
                 /\ returned.results[op] =
                        Result(op.defaultValue, "ERROR", Undefined,
                               b.errorCode, b.errorMessage)

C11_Witness ==
    /\ returned.source = "error"
    /\ returned.response.failure = "rateLimit"
    /\ \E op \in TypedOps :
          /\ op.kind = "Object"
          /\ returned.results[op].reason = "ERROR"
          /\ returned.results[op].errorMessage = "Pendo API rate limit exceeded"

\* C12: whenever the obtained FlagSet contains flagKey, the string operation
\* returns "on", the number operation 1 and the object operation
\* {enabled: true}, each with reason TARGETING_MATCH and variant "on", for
\* every defaultValue.
C12_TypedOnWhenInFlagSet ==
    FlagSetObtained(returned) =>
        \A op \in TypedOps :
            op.flagKey \in returned.flags =>
                returned.results[op] =
                    Result(OnValue(op.kind), "TARGETING_MATCH", "on",
                           Undefined, Undefined)

C12_Witness ==
    /\ returned.source = "fetch"
    /\ HasTargetingKey(returned.context)
    /\ "f1" \in returned.flags
    /\ \E op \in TypedOps :
          /\ op.kind = "Number" /\ op.flagKey = "f1"
          /\ op.defaultValue = NumberValue(0)
          /\ returned.results[op].value = NumberValue(1)

\* C13 (as claimed): whenever the context has a targetingKey and the
\* obtained FlagSet does not contain flagKey, the string operation returns
\* "off", the number operation 0 and the object operation {enabled: false},
\* for every defaultValue.
C13_TypedOffWhenNotInFlagSet ==
    (FlagSetObtained(returned) /\ HasTargetingKey(returned.context)) =>
        \A op \in TypedOps :
            op.flagKey \notin returned.flags =>
                returned.results[op].value = OffValue(op.kind)

C15_InitializeValidates ==
    [][ returned'.source = "initialize" =>
          /\ options.apiKey = "" =>
                /\ returned'.error = "Pendo API key is required"
                /\ status' = "NOT_READY"
          /\ (options.apiKey /= "" /\ options.defaultUrl = "") =>
                /\ returned'.error =
                      "Pendo defaultUrl is required for server-side evaluation"
                /\ status' = "NOT_READY"
          /\ (options.apiKey /= "" /\ options.defaultUrl /= "") =>
                /\ returned'.error = Undefined
                /\ status' = "READY"
                /\ nFetch' = nFetch
                /\ pending' = pending ]_vars

C15_Witness ==
    /\ returned.source = "initialize"
    /\ options.apiKey = ""
    /\ options.defaultUrl = ""
    /\ returned.error = "Pendo API key is required"
    /\ status = "NOT_READY"

\* C16: right after onClose() the status is NOT_READY and the cache is
\* empty, whatever they were before the call.
C16_CloseResets ==
    returned.source = "onClose" =>
        /\ status = "NOT_READY"
        /\ DOMAIN cache = {}

C16_Witness ==
    /\ returned.source = "onClose"
    /\ returned.wasReady
    /\ returned.hadEntries
    /\ status = "NOT_READY"
    /\ cache = EmptyCache

\* ---------------------------------------------- event tracking (C17 - C20)
SecretConfigured == options.trackEventSecret \notin {Undefined, ""}

\* C17: track() makes exactly one fetch call, a POST to <baseUrl>/data/track
\* carrying the secret, when trackEventSecret is configured and the context
\* has a targetingKey, and none otherwise; a missing secret gives only the
\* secret warning, also when the targetingKey is missing too.
C17_TrackPreconditions ==
    tracked.op = "track" =>
        LET hasKey == HasTargetingKey(tracked.context)
        IN /\ (SecretConfigured /\ hasKey) =>
                 /\ Len(tracked.fetched) = 1
                 /\ tracked.fetched[1].url = options.baseUrl \o "/data/track"
                 /\ tracked.fetched[1].method = "POST"
                 /\ tracked.fetched[1].secret = options.trackEventSecret
                 /\ tracked.logged = <<>>
           /\ ~(SecretConfigured /\ hasKey) => tracked.fetched = <<>>
           /\ ~SecretConfigured =>
                 tracked.logged =
                   <<[level |-> "warn",
                      text |-> "[PendoProvider] trackEventSecret is required to track events"]>>
           /\ (SecretConfigured /\ ~hasKey) =>
                 tracked.logged =
                   <<[level |-> "warn",
                      text |-> "[PendoProvider] targetingKey (visitorId) is required to track events"]>>

C17_Witness ==
    /\ tracked.op = "track"
    /\ options.trackEventSecret = Undefined
    /\ tracked.context.targetingKey = Undefined
    /\ Len(tracked.logged) = 1
    /\ tracked.fetched = <<>>

\* C18: track() and the server hook's after() return with their POST
\* request still in flight, and a request that is rejected later is logged
\* with console.error by its call site and leaves no unhandled rejection.
C18_FireAndForget ==
    [][ /\ (tracked'.op \in {"track", "after"} /\ tracked'.fetched /= <<>>) =>
              posts' = posts (+) SetToBag({tracked'.op})
        /\ (tracked'.op = "settle" /\ tracked'.settled = "rejected") =>
              /\ ~tracked'.unhandled
              /\ Len(tracked'.logged) = 1
              /\ tracked'.logged[1].level = "error"
              /\ posts' = posts (-) SetToBag({tracked'.site}) ]_vars

C18_Witness ==
    /\ tracked.op = "settle"
    /\ tracked.site = "after"
    /\ tracked.settled = "rejected"
    /\ tracked.logged /= <<>>

\* C19: after() sends nothing for a flag key its flagFilter rejects, the
\* server hook sends nothing without a targetingKey, and otherwise the
\* server hook (given a targetingKey) makes exactly one fetch call and the
\* web hook (given pendo.track) exactly one pendo.track call.
C19_HookSendsOnePerEvaluation ==
    /\ tracked.op = "after" =>
          LET rejected == /\ hook.flagFilter.configured
                          /\ tracked.flagKey \notin hook.flagFilter.accepts
              hasKey == HasTargetingKey(tracked.context)
          IN /\ rejected => tracked.fetched = <<>>
             /\ ~hasKey => tracked.fetched = <<>>
             /\ (~rejected /\ hasKey) => Len(tracked.fetched) = 1
             /\ tracked.pendo = <<>>
    /\ tracked.op = "webAfter" =>
          LET rejected == /\ webHook.flagFilter.configured
                          /\ tracked.flagKey \notin webHook.flagFilter.accepts
          IN /\ rejected => tracked.pendo = <<>>
             /\ (~rejected /\ window = "track") =>
                   /\ Len(tracked.pendo) = 1
                   /\ tracked.pendo[1].event = webHook.eventName
             /\ tracked.fetched = <<>>

C19_Witness ==
    /\ tracked.op = "webAfter"
    /\ window = "track"
    /\ webHook.flagFilter.configured
    /\ tracked.flagKey = "f2"
    /\ tracked.pendo = <<>>

\* the text the hook documents for each value of the domain
ExpectedText(v) ==
    CASE v.t = "null" -> "null"
      [] v.t = "boolean" -> IF v.b THEN "true" ELSE "false"
      [] v.t = "number" /\ v.n = 42 -> "42"
      [] v.t = "string" -> v.s
      [] v.t = "object" /\ v.fields[1].key = "enabled" -> "{\"enabled\":true}"
      [] v.t = "object" /\ v.fields[1].key = "nested" -> "{\"nested\":{\"value\":123}}"
      [] v.t = "array" -> "[1,\"a\"]"

\* the properties a hook step sent, to fetch or to pendo.track
SentProperties(tr) ==
    IF tr.op = "after" THEN tr.fetched[1].body.properties
    ELSE tr.pendo[1].properties

\* C20: the properties a hook sends are flag_key, flag_variant (the variant,
\* "unknown" when missing), flag_reason (the reason, "UNKNOWN" when
\* missing), provider_name and flag_value, the value as text: "null" for
\* null, the JSON text for an object, and String(value) otherwise.
C20_HookProperties ==
    ( /\ tracked.op \in {"after", "webAfter"}
      /\ (tracked.fetched /= <<>> \/ tracked.pendo /= <<>>) ) =>
        LET p == SentProperties(tracked)
            d == tracked.details
        IN /\ p.flag_key = tracked.flagKey
           /\ p.flag_variant =
                 (IF d.variant \in {Undefined, ""} THEN "unknown" ELSE d.variant)
           /\ p.flag_reason =
                 (IF d.reason \in {Undefined, ""} THEN "UNKNOWN" ELSE d.reason)
           /\ p.provider_name = tracked.providerName
           /\ p.flag_value = ExpectedText(d.value)

C20_Witness ==
    /\ tracked.op = "after"
    /\ tracked.fetched /= <<>>
    /\ tracked.details.value.t = "string"
    /\ tracked.fetched[1].body.properties.flag_value = "on"
    /\ tracked.fetched[1].body.properties.flag_variant = "on"

\* ------------------------------------------------ request encoding (C21, C22)
UrlSafeChars ==
    { Base64Alphabet[i] : i \in 1..62 } \cup {"-", "_"}

\* the number of "=" at the end of a text
RECURSIVE TrailingPadding(_)
TrailingPadding(text) ==
    IF text /= <<>> /\ text[Len(text)] = "="
      THEN 1 + TrailingPadding(SubSeq(text, 1, Len(text) - 1))
      ELSE 0

\* C21: decoding the token of encodeJzb(P) (restore the alphabet and the
\* padding, base64-decode, inflate, parse) gives P again, for every payload
\* and every deflate output.
C21_JzbRoundTrip ==
    jzb.stage = "decoded" =>
        /\ DecodedBytes(jzb.token) = jzb.compressed
        /\ jzb.decoded = jzb.payload

C21_Witness ==
    /\ jzb.stage = "decoded"
    /\ jzb.payload = JsObject(<<>>)
    /\ Len(jzb.compressed) = 4
    /\ \E i \in 1..Len(jzb.token) : jzb.token[i] = "-"
    /\ \E i \in 1..Len(jzb.token) : jzb.token[i] = "_"
    /\ jzb.decoded = jzb.payload

\* C22: the token is not empty, holds only A-Z, a-z, 0-9, "-" and "_", and
\* is the base64 text with every "+" written as "-", every "/" as "_" and
\* the trailing "=" removed.
C22_JzbUrlSafe ==
    jzb.stage \in {"encoded", "decoded"} =>
        /\ jzb.token /= <<>>
        /\ \A i \in 1..Len(jzb.token) : jzb.token[i] \in UrlSafeChars
        /\ Len(jzb.token) = Len(jzb.base64) - TrailingPadding(jzb.base64)
        /\ \A i \in 1..Len(jzb.token) :
              jzb.token[i] = (CASE jzb.base64[i] = "+" -> "-"
                                [] jzb.base64[i] = "/" -> "_"
                                [] OTHER -> jzb.base64[i])

C22_Witness ==
    /\ jzb.stage = "encoded"
    /\ Len(jzb.base64) = 8
    /\ jzb.base64[8] = "="
    /\ Cardinality({i \in 1..8 : jzb.base64[i] = "/"}) >= 2
    /\ Cardinality({i \in 1..8 : jzb.base64[i] = "+"}) >= 2
    /\ Len(jzb.token) < 8

\* --------------------------------------------------- concurrency (C23 - C25)
\* C23: a call that misses the cache while a request for the same context is
\* still pending sends its own request; every request that completes with a
\* FlagSet replaces the entry of its key with that FlagSet, so the entry is
\* the FlagSet written last, and the completing call's result is computed
\* from the FlagSet of its own response.
C23_ConcurrentMissesBothFetch ==
    [][ LET key == CacheKey(returned'.context.targetingKey,
                            returned'.context.accountId)
        IN /\ ( /\ CallStarted(returned')
                /\ HasTargetingKey(returned'.context)
                /\ BagIn(returned'.context, pending)
                /\ ~(key \in DOMAIN cache /\ now < cache[key].expiresAt) ) =>
                  /\ returned'.source = "suspended"
                  /\ nFetch' = nFetch + 1
                  /\ CopiesIn(returned'.context, pending') =
                        CopiesIn(returned'.context, pending) + 1
           /\ returned'.source = "fetch" =>
                  /\ key \in DOMAIN cache'
                  /\ cache'[key].flags = returned'.flags
                  /\ cache'[key].expiresAt = now + options.cacheTtl
                  /\ \A op \in BoolOps :
                        (returned'.results[op].value = BoolValue(TRUE))
                          <=> (op.flagKey \in returned'.flags) ]_vars

\* the second of two requests for one context completes and replaces the
\* entry the first one wrote
C23_Witness ==
    /\ returned.source = "fetch"
    /\ returned.overwrote
    /\ pending = EmptyBag
    /\ nFetch = 2
    /\ returned.flags = {"f1"}
    /\ cache[CacheKey(returned.context.targetingKey,
                      returned.context.accountId)].flags = {"f1"}

\* the step was the start / the completion of a resolve call of a provider
IStarted(a) == a.source \in {"noVisitor", "cache", "suspended"}
ISettled(a) == a.source \in {"fetch", "error"}

\* C24: a call never waits for another call's request: whatever is pending,
\* any resolution can start and any pending request can complete; a call
\* for one visitor leaves the pending calls of the others pending, a call
\* served from the cache gets its own key's entry, and a completed fetch
\* gives the FlagSet of its own response.
C24_ResolutionsDoNotBlock ==
    /\ [](\A i \in Instances, context \in InstContexts :
            /\ ((InFlight(insts) < MaxInFlight) => ENABLED IResolve(i, context))
            /\ (BagIn(context, insts[i].pending) =>
                  \A resp \in InstResponses : ENABLED IRespond(i, context, resp)))
    /\ [][ /\ ((IStarted(acted') \/ ISettled(acted')) =>
                \A i \in Instances, other \in InstContexts :
                    (i /= acted'.inst \/ other /= acted'.context) =>
                        CopiesIn(other, insts'[i].pending) =
                            CopiesIn(other, insts[i].pending))
            /\ (acted'.source = "cache" =>
                  acted'.flags =
                    CacheOf(heap, insts, acted'.inst)
                      [CacheKey(acted'.context.targetingKey,
                                acted'.context.accountId)].flags)
            /\ ((acted'.source = "fetch" /\ acted'.response.status = 200) =>
                  /\ acted'.flags = acted'.response.body.segmentFlags
                  /\ \A op \in BoolOps :
                        acted'.results[op].value =
                          BoolValue(op.flagKey \in acted'.response.body.segmentFlags))
          ]_vars

C24_Witness ==
    /\ acted.source = "fetch"
    /\ acted.inst = 1
    /\ acted.context.targetingKey = "u2"
    /\ acted.flags = {"f1"}
    /\ \E c \in InstContexts :
          c.targetingKey = "u1" /\ BagIn(c, insts[1].pending)

\* C25: a step of one provider leaves the cache of the other as it was, and
\* a provider serves a call from the cache only under a key it has stored
\* itself since it last cleared its cache.
C25_InstancesOwnTheirCache ==
    /\ [][ \A j \in Instances :
              j /= acted'.inst =>
                  CacheOf(heap', insts', j) = CacheOf(heap, insts, j) ]_vars
    /\ [](acted.source = "cache" =>
            CacheKey(acted.context.targetingKey, acted.context.accountId)
                \in insts[acted.inst].wrote)

C25_Witness ==
    /\ acted.source = "cache"
    /\ acted.inst = 2
    /\ acted.flags = {"f1"}
    /\ LET key == CacheKey(acted.context.targetingKey, acted.context.accountId)
       IN /\ key \in DOMAIN CacheOf(heap, insts, 1)
          /\ CacheOf(heap, insts, 1)[key].flags = {}

\* the agent object on page p says ready: isReady() returns true or
\* segmentFlags is defined
SaysReady(p) == p.window /\ p.pendo /\ (p.isReady = "true" \/ p.hasFlags)

\* this step ran the timer callback of wait i / started wait i / ran the
\* pendo:ready listener of wait i / resumed the call that started wait i
Polled(i) == i \in DOMAIN waits /\ waits[i].timerDue /\ ~waits'[i].timerDue
Started(i) == i = Len(waits) + 1 /\ i \in DOMAIN waits'
Heard(i) == i \in DOMAIN waits /\ waits[i].listening /\ ~waits'[i].listening
Resumed(i) ==
    i \in DOMAIN waits /\ waits[i].owner = "waiting" /\ waits'[i].owner = "done"

C27_ReadyAsSoonAsPendoIs ==
    [][ /\ \A i \in WaitIds :
              /\ ((Polled(i) /\ SaysReady(page)) =>
                    /\ waits'[i].state = "resolved"
                    /\ ~waits'[i].polling
                    /\ (waits[i].state = "pending" => waits'[i].cause = "ready"))
              /\ ((Started(i) /\ SaysReady(page)) =>
                    /\ waits'[i].state = "resolved"
                    /\ waits'[i].cause = "ready"
                    /\ ~waits'[i].polling)
              /\ (Heard(i) =>
                    /\ waits'[i].state = "resolved"
                    /\ (waits[i].state = "pending" => waits'[i].cause = "event"))
              /\ (Resumed(i) =>
                    waits[i].state = "resolved" /\ webStatus' = "READY")
              /\ ((i \in DOMAIN waits /\ waits[i].state = "pending"
                     /\ waits'[i].state = "resolved") =>
                    \/ Heard(i)
                    \/ Polled(i) /\ SaysReady(page)
                    \/ Polled(i) /\ waits[i].elapsed > waits[i].timeout)
        /\ ((webStatus = "NOT_READY" /\ webStatus' = "READY") =>
              \E i \in WaitIds : Resumed(i)) ]_vars

C27_Witness ==
    /\ Len(waits) = 2
    /\ waits[1].cause = "event"
    /\ waits[2].cause = "ready"
    /\ waits[2].warned = FALSE
    /\ waits[1].owner = "done"
    /\ waits[2].owner = "done"
    /\ webStatus = "READY"

\* C28: a poll that does not find the agent ready ends the wait exactly when
\* more than readyTimeout ms have passed since the start, with the warning
\* logged; otherwise the poll is repeated. A wait is pending or resolved,
\* never rejected, and every initialize() call that started a wait
\* eventually resumes.
C28_InitializeTerminates ==
    /\ [][ \A i \in WaitIds :
              (Polled(i) /\ ~SaysReady(page)) =>
                  IF waits[i].elapsed > waits[i].timeout
                    THEN /\ waits'[i].state = "resolved"
                         /\ waits'[i].warned
                         /\ ~waits'[i].polling
                         /\ (waits[i].state = "pending" =>
                               waits'[i].cause = "timeout")
                    ELSE /\ waits'[i].state = waits[i].state
                         /\ waits'[i].warned = waits[i].warned
                         /\ waits'[i].polling ]_vars
    /\ [](\A i \in DOMAIN waits : waits[i].state \in {"pending", "resolved"})
    /\ \A i \in WaitIds :
          (Len(waits) >= i) ~> (Len(waits) >= i /\ waits[i].owner = "done")

C28_Witness ==
    /\ Len(waits) >= 1
    /\ waits[1].cause = "timeout"
    /\ waits[1].warned
    /\ waits[1].timeout = PollInterval
    /\ waits[1].owner = "done"
    /\ ~page.pendo

\* C29: when the initialize() call of a wait that ended through the timeout
\* resumes, status is NOT_READY afterwards.
C29_TimeoutLeavesNotReady ==
    [][ \A i \in WaitIds :
          (Resumed(i) /\ waits[i].cause = "timeout") =>
              webStatus' = "NOT_READY" ]_vars

\* C30: while readyPromise is set no step starts a wait, a polling loop or a
\* listener, a further initialize() call joins the wait readyPromise refers
\* to, and once the calls on that wait have settled status is READY.
C30_InitializesOnce ==
    /\ [][ /\ readyPromise /= 0 =>
                /\ Len(waits') = Len(waits)
                /\ \A i \in DOMAIN waits :
                      /\ (waits'[i].polling => waits[i].polling)
                      /\ (waits'[i].listening => waits[i].listening)
            /\ \A i \in DOMAIN waits :
                  waits'[i].joined > waits[i].joined =>
                      /\ i = readyPromise
                      /\ waits' = [waits EXCEPT ![i].joined = @ + 1] ]_vars
    /\ [](readyPromise /= 0 =>
            LET w == waits[readyPromise]
            IN (w.state = "resolved" /\ w.owner = "done" /\ w.joined = 0) =>
                  webStatus = "READY")

C30_Witness ==
    /\ readyPromise = 1
    /\ Len(waits) = 1
    /\ waits[1].joined = 1
    /\ waits[1].owner = "done"
    /\ webStatus = "READY"

\* ------------------------------------------- server behaviour (C31 - C39)
\* C31: a GET request is sent only by a resolve call that starts and misses
\* the cache, and such a call sends one; a call that starts on a cache hit
\* or without a visitor sends none, and the step in which a request settles
\* (with a FlagSet or with a failure) ends the call and sends none.
C31_OneRequestPerMiss ==
    [][ /\ (returned'.source = "suspended") =>
              /\ nFetch' = nFetch + 1
              /\ pending' = pending (+) SetToBag({returned'.context})
              /\ HasTargetingKey(returned'.context)
              /\ ~CacheHit(cache, CacheKey(returned'.context.targetingKey,
                                           returned'.context.accountId), now)
        /\ (returned'.source \in {"noVisitor", "cache"}) =>
              nFetch' = nFetch /\ pending' = pending
        /\ FetchSettled(returned') =>
              /\ nFetch' = nFetch
              /\ BagIn(returned'.context, pending)
              /\ pending' = pending (-) SetToBag({returned'.context})
        /\ (nFetch' /= nFetch) =>
              /\ returned'.source = "suspended"
              /\ BagCardinality(pending') = BagCardinality(pending) + 1
      ]_vars

C31_Witness ==
    /\ returned.source = "error"
    /\ returned.response.failure /= "none"
    /\ nFetch = 1
    /\ pending = EmptyBag

\* C32: what a resolve call does is decided by its context, the cache and
\* the clock alone, also while status is NOT_READY: without a visitor it
\* returns the default, on an unexpired entry it returns the entry's flags,
\* otherwise it sends a request, and the FlagSet the request brings is
\* stored and returned.
C32_ResolutionIgnoresStatus ==
    [][ status = "NOT_READY" =>
          /\ CallStarted(returned') =>
                LET key == CacheKey(returned'.context.targetingKey,
                                    returned'.context.accountId)
                    hit == key \in DOMAIN cache /\ now < cache[key].expiresAt
                IN /\ returned'.source =
                        IF ~HasTargetingKey(returned'.context) THEN "noVisitor"
                        ELSE IF hit THEN "cache"
                        ELSE "suspended"
                   /\ (returned'.source = "cache" =>
                         /\ returned'.flags = cache[key].flags
                         /\ returned'.results =
                              ResultsOfFlags(FALSE, cache[key].flags))
                   /\ (returned'.source = "suspended" => nFetch' = nFetch + 1)
          /\ returned'.source = "fetch" =>
                LET key == CacheKey(returned'.context.targetingKey,
                                    returned'.context.accountId)
                IN /\ key \in DOMAIN cache'
                   /\ cache'[key] = [flags |-> returned'.flags,
                                     expiresAt |-> now + options.cacheTtl]
                   /\ returned'.results = ResultsOfFlags(FALSE, returned'.flags)
      ]_vars

C32_Witness ==
    /\ status = "NOT_READY"
    /\ options.apiKey = ""
    /\ returned.source = "fetch"
    /\ returned.flags = {"f1"}
    /\ CacheKey(returned.context.targetingKey, returned.context.accountId)
         \in DOMAIN cache

\* C33 (as claimed): a FlagSet fetched and stored for one (visitorId,
\* accountId) pair changes nothing for any other pair: whether a call for
\* the other pair would be served from the cache, and with which flags, is
\* the same before and after the step.
C33_PairsNeverShareEntry ==
    [][ acted'.source = "fetch" =>
          \A other \in KeyContexts \ {acted'.context} :
              LET key == CacheKey(other.targetingKey, other.accountId)
                  old == CacheOf(heap, insts, acted'.inst)
                  new == CacheOf(heap', insts', acted'.inst)
              IN /\ CacheHit(new, key, now) = CacheHit(old, key, now)
                 /\ (CacheHit(new, key, now) => new[key] = old[key])
      ]_vars

\* C34: the entry a completed request stores expires cacheTtl after the
\* clock value at which it is stored, also when the request was sent at an
\* earlier clock value; with cacheTtl = 0 no call is served from the cache,
\* every call with a visitor sends a request.
C34_ExpiryCountsFromWrite ==
    [][ /\ returned'.source = "fetch" =>
              LET key == CacheKey(returned'.context.targetingKey,
                                  returned'.context.accountId)
              IN /\ now' = now
                 /\ key \in DOMAIN cache'
                 /\ cache'[key].expiresAt = now + options.cacheTtl
        /\ (options.cacheTtl = 0 /\ CallStarted(returned')
              /\ HasTargetingKey(returned'.context)) =>
              /\ returned'.source = "suspended"
              /\ nFetch' = nFetch + 1
      ]_vars

C34_Witness ==
    /\ returned.source = "fetch"
    /\ nFetch = 1
    /\ lastStore[returned.context].waited
    /\ options.cacheTtl = 1
    /\ now = 1
    /\ cache[CacheKey(returned.context.targetingKey,
                      returned.context.accountId)].expiresAt = 2

\* C35: a call served from the cache leaves the cache as it was, expiresAt
\* and flags of every entry included, and returns the flags of the entry;
\* it is served only while the clock is below the entry's expiresAt, and a
\* call that finds the entry at or past its expiresAt sends a request.
C35_HitLeavesCacheUnchanged ==
    [][ (CallStarted(returned') /\ HasTargetingKey(returned'.context)) =>
          LET key == CacheKey(returned'.context.targetingKey,
                              returned'.context.accountId)
          IN /\ cache' = cache
             /\ (returned'.source = "cache") =>
                    /\ key \in DOMAIN cache
                    /\ now < cache[key].expiresAt
                    /\ returned'.flags = cache[key].flags
             /\ (key \in DOMAIN cache /\ now >= cache[key].expiresAt) =>
                    returned'.source = "suspended"
      ]_vars

C35_Witness ==
    /\ returned.source = "cache"
    /\ options.cacheTtl = MaxTtl + 1
    /\ now = 1
    /\ nFetch = 1
    /\ cache[CacheKey(returned.context.targetingKey,
                      returned.context.accountId)].expiresAt = MaxTtl + 1

\* C36 (as claimed): the step that follows onClose() leaves the cache empty;
\* no resolve call both starts and stores within one step, so an entry that
\* appears in that step comes from a request that was in flight when
\* onClose() ran.
C36_ClosedCacheStaysEmpty ==
    [][ returned.source = "onClose" => DOMAIN cache' = {} ]_vars

\* C37 (as claimed): while the web provider holds no readyPromise, that is
\* before the first initialize() and from onClose() until the next
\* initialize(), its status is NOT_READY, also when an initialize() call
\* that was waiting for Pendo at onClose() resumes.
C37_ClosedStaysNotReady ==
    readyPromise = 0 => webStatus = "NOT_READY"

\* C38: the status changes only in a step of initialize(), to READY, or of
\* onClose(), to NOT_READY: the steps of the resolve operations, of
\* clearCache(), of track(), of the hook's after() and of their requests
\* settling leave it as it is; a step of track() or of the hook leaves the
\* cache as it is, and sends its request, or not, by the secret and the
\* targetingKey alone, whatever the cache holds.
C38_StatusOnlyByLifecycle ==
    [][ /\ (status' /= status) =>
              \/ returned'.source = "initialize" /\ status' = "READY"
              \/ returned'.source = "onClose" /\ status' = "NOT_READY"
        /\ (returned'.source \notin {"initialize", "onClose"}) =>
              status' = status
        /\ (trackVars' /= trackVars) =>
              /\ status' = status
              /\ cache' = cache
              /\ (tracked'.op = "track") =>
                    ((tracked'.fetched /= <<>>) <=>
                       (SecretConfigured /\ HasTargetingKey(tracked'.context)))
              /\ (tracked'.op = "after") =>
                    ((tracked'.fetched /= <<>>) <=>
                       HasTargetingKey(tracked'.context))
      ]_vars

C38_Witness ==
    /\ status = "READY"
    /\ returned.source = "cache"
    /\ tracked.op = "track"
    /\ tracked.fetched /= <<>>
    /\ BagIn("track", posts)
    /\ CacheKey(tracked.context.targetingKey, tracked.context.accountId)
          \in DOMAIN cache

\* C39: when every request settles at last, every call that awaits a request
\* returns at last, in the step in which its request settles; a call that
\* has no visitorId or is served from the cache returns in the step that
\* starts it, with no request sent or settled; and a call leaves the
\* awaiting calls only in a step in which its request settles, never by the
\* clock advancing.
C39_CallsReturn ==
    /\ \A context \in ServerContexts :
          BagIn(context, pending) ~>
              (FetchSettled(returned) /\ returned.context = context)
    /\ [][ /\ (returned'.source \in {"noVisitor", "cache"}) =>
                  pending' = pending /\ nFetch' = nFetch
           /\ (pending' /= pending /\ returned'.source /= "suspended") =>
                  /\ FetchSettled(returned')
                  /\ BagIn(returned'.context, pending)
                  /\ pending' = pending (-) SetToBag({returned'.context})
           /\ (now' /= now) => pending' = pending
         ]_vars

C39_Witness ==
    /\ FetchSettled(returned)
    /\ nFetch = 2
    /\ now = MaxTime
    /\ BagCardinality(pending) = 1

====
